---- MODULE Spec2Model ----
(***************************************************************************)
(* Place Discovery & Scoring Engine of snappoint-api.                      *)
(*                                                                         *)
(* Units.  Latitudes and longitudes are integers in millidegrees; every    *)
(* place and every accepted query centre of the model lies on the meridian *)
(* LngOK, where the great-circle distance is R * |dLat|.  Distances and    *)
(* radii are integers in centimetres.  Ratings are integers in tenths      *)
(* (45 is 4.5) and the catalogue only uses multiples of 0.5, for which the *)
(* float arithmetic of the importance score is exact.  A nil pointer       *)
(* of an optional value is the value Nil.  Strings that the code searches      *)
(* (place names) are sequences of one-character strings; category strings *)
(* are atomic and lower-cased by ToLowerCat.                               *)
(***************************************************************************)
EXTENDS Integers, Sequences, FiniteSets, TLC

(* ------------------------------ bounds -------------------------------- *)
\* provider records in one page of a response
MaxResults == 2
\* rows the autoincrement key may hand out beyond the seeded rows
MaxInserts == 4

(* ------------------------- program constants -------------------------- *)
DEFAULT_PLACE_POINTS == 5
USER_VISITED_POINTS == 1
NO_POSTS_BONUS_POINTS == 3
\* freshness threshold of GetNearbyPlaces
FreshThreshold == 20
\* default number of places to return
DefaultLimit == 50
\* default search radius, metres (20.0 km)
DefaultRadiusM == 20000
\* radius clamp, centimetres (0.1 km and 50.0 km)
MinRadiusCm == 10000
MaxRadiusCm == 5000000
\* page limit of one ingestion call
MaxPages == 3
\* places selected per page
MaxPerPage == 20
\* radius of the clustering context query, centimetres (10 km)
ExistingRadiusCm == 1000000
\* minimum distance of the selector's third pass, centimetres (0.2 km)
MinSpacingCm == 20000
\* high-importance threshold of the selector's first pass
HighImportance == 80
\* grid cell size in millidegrees (0.01 degree)
GridSize == 10
\* R * PI / 180 for R = 6371.0 km: centimetres per millidegree of latitude
CmPerMilliDeg == 11119
\* the nil pointer of an optional rating or review count
Nil == -1

(* ------------------------------ helpers ------------------------------- *)
Abs(x) == IF x < 0 THEN -x ELSE x
MaxOf(a, b) == IF a > b THEN a ELSE b
MinOf(a, b) == IF a < b THEN a ELSE b

\* strings.ToLower on the characters the model's names use; the letter s with
\* cedilla is written "s_cedilla", its capital "S_cedilla"
ToLowerChar(ch) ==
    CASE ch = "A" -> "a" [] ch = "B" -> "b" [] ch = "C" -> "c" [] ch = "D" -> "d"
      [] ch = "E" -> "e" [] ch = "F" -> "f" [] ch = "G" -> "g" [] ch = "H" -> "h"
      [] ch = "I" -> "i" [] ch = "J" -> "j" [] ch = "K" -> "k" [] ch = "L" -> "l"
      [] ch = "M" -> "m" [] ch = "N" -> "n" [] ch = "O" -> "o" [] ch = "P" -> "p"
      [] ch = "Q" -> "q" [] ch = "R" -> "r" [] ch = "S" -> "s" [] ch = "T" -> "t"
      [] ch = "U" -> "u" [] ch = "V" -> "v" [] ch = "W" -> "w" [] ch = "X" -> "x"
      [] ch = "Y" -> "y" [] ch = "Z" -> "z" [] ch = "Ö" -> "ö"
      [] ch = "S_cedilla" -> "s_cedilla" [] OTHER -> ch

ToLowerName(s) == [i \in 1..Len(s) |-> ToLowerChar(s[i])]

\* strings.Contains
Contains(hay, needle) ==
    \E i \in 0..(Len(hay) - Len(needle)) :
        \A j \in 1..Len(needle) : hay[i + j] = needle[j]

\* strings.ToLower on the category strings the model's places use
ToLowerCat(c) ==
    CASE c = "Museum" -> "museum"
      [] c = "CAFE" -> "cafe"
      [] c = "Tourist_Attraction" -> "tourist_attraction"
      [] OTHER -> c

(* ------------------------- configuration tables ----------------------- *)
\* GetPlaceScoring().CategoryPoints; 0 stands for a missing key
CategoryPointsTable(c) ==
    CASE c = "castle" -> 60
      [] c = "palace" -> 60
      [] c = "historical_site" -> 60
      [] c = "museum" -> 55
      [] c = "ruins" -> 55
      [] c = "art_gallery" -> 50
      [] c = "monument" -> 50
      [] c = "archaeological_site" -> 50
      [] c = "tourist_attraction" -> 45
      [] c = "natural_feature" -> 45
      [] c = "waterfall" -> 45
      [] c = "island" -> 45
      [] c = "church" -> 40
      [] c = "mosque" -> 40
      [] c = "synagogue" -> 40
      [] c = "place_of_worship" -> 40
      [] c = "national_park" -> 40
      [] c = "mountain" -> 40
      [] c = "cave" -> 40
      [] c = "theater" -> 35
      [] c = "beach" -> 35
      [] c = "botanical_garden" -> 35
      [] c = "park" -> 30
      [] c = "zoo" -> 30
      [] c = "aquarium" -> 30
      [] c = "cemetery" -> 30
      [] c = "amusement_park" -> 30
      [] c = "lake" -> 25
      [] c = "forest" -> 25
      [] c = "stadium" -> 25
      [] c = "shopping_mall" -> 25
      [] c = "restaurant" -> 20
      [] c = "movie_theater" -> 20
      [] c = "spa" -> 20
      [] c = "cafe" -> 15
      [] c = "night_club" -> 15
      [] c = "casino" -> 15
      [] c = "bar" -> 15
      [] c = "hotel" -> 15
      [] c = "lodging" -> 15
      [] c = "gym" -> 10
      [] c = "bowling_alley" -> 10
      [] c = "bakery" -> 10
      [] c = "food" -> 10
      [] c = "meal_takeaway" -> 10
      [] c = "meal_delivery" -> 10
      [] c = "book_store" -> 15
      [] c = "jewelry_store" -> 15
      [] c = "store" -> 10
      [] c = "clothing_store" -> 10
      [] c = "electronics_store" -> 10
      [] c = "supermarket" -> 10
      [] c = "resort" -> 30
      [] c = "hostel" -> 15
      [] c = "university" -> 25
      [] c = "library" -> 20
      [] c = "school" -> 15
      [] c = "hospital" -> 15
      [] c = "pharmacy" -> 10
      [] c = "bank" -> 10
      [] c = "post_office" -> 10
      [] c = "train_station" -> 15
      [] c = "airport" -> 15
      [] c = "subway_station" -> 10
      [] c = "bus_station" -> 10
      [] c = "gas_station" -> 10
      [] c = "police" -> 10
      [] c = "fire_station" -> 10
      [] c = "parking" -> 10
      [] c = "taxi_stand" -> 10
      [] c = "atm" -> 10
      [] c = "establishment" -> 10
      [] c = "point_of_interest" -> 15
      [] OTHER -> 0

HasCategoryPoints(c) == CategoryPointsTable(c) # 0

\* GetPlaceFiltering().ExcludedCategories
ExcludedCategories ==
    {"locksmith", "plumber", "electrician", "roofing_contractor",
     "general_contractor", "painter", "moving_company", "car_repair",
     "car_wash", "car_dealer", "gas_station", "hair_care",
     "beauty_salon", "spa", "nail_salon", "massage",
     "dentist", "doctor", "veterinary_care", "pharmacy",
     "physiotherapist", "atm", "bank", "insurance_agency",
     "accounting", "real_estate_agency", "laundry", "dry_cleaning",
     "post_office", "courier_service", "storage", "funeral_home",
     "cemetery", "lawyer", "government_office", "courthouse",
     "police", "fire_station", "convenience_store", "supermarket",
     "grocery_or_supermarket", "hardware_store", "auto_parts_store", "parking",
     "taxi_stand", "bus_station", "subway_station", "truck_stop"}

\* the suspicious name keywords of ShouldExcludePlace
suspiciousKeywords ==
    <<<<"b","e","r","b","e","r">>,
      <<"k","u","a","f","ö","r">>,
      <<"b","a","r","b","e","r">>,
      <<"h","a","i","r">>,
      <<"n","a","i","l">>,
      <<"m","a","s","s","a","g","e">>,
      <<"e","c","z","a","n","e">>,
      <<"p","h","a","r","m","a","c","y">>,
      <<"d","o","k","t","o","r">>,
      <<"d","o","c","t","o","r">>,
      <<"d","i","s_cedilla">>,
      <<"d","e","n","t","a","l">>,
      <<"a","t","m">>,
      <<"b","a","n","k">>,
      <<"b","a","n","k","a">>,
      <<"s","i","g","o","r","t","a">>,
      <<"i","n","s","u","r","a","n","c","e">>,
      <<"b","e","n","z","i","n">>,
      <<"p","e","t","r","o","l">>,
      <<"g","a","s"," ","s","t","a","t","i","o","n">>,
      <<"o","t","o">>,
      <<"c","a","r"," ","w","a","s","h">>,
      <<"t","a","m","i","r","c","i">>,
      <<"r","e","p","a","i","r">>,
      <<"s","e","r","v","i","s">>,
      <<"s","e","r","v","i","c","e">>,
      <<"t","e","k","n","i","s","y","e","n">>,
      <<"k","u","r","y","e">>,
      <<"c","o","u","r","i","e","r">>,
      <<"k","a","r","g","o">>,
      <<"c","a","r","g","o">>,
      <<"n","a","k","l","i","y","e">>,
      <<"e","m","l","a","k">>,
      <<"r","e","a","l"," ","e","s","t","a","t","e">>,
      <<"n","o","t","e","r">>,
      <<"a","v","u","k","a","t">>,
      <<"l","a","w","y","e","r">>,
      <<"m","u","h","a","s","e","b","e">>,
      <<"a","c","c","o","u","n","t","i","n","g">>,
      <<"m","a","l","i"," ","m","ü","s_cedilla","a","v","i","r">>,
      <<"t","e","m","i","z","l","i","k">>,
      <<"c","l","e","a","n","i","n","g">>,
      <<"d","r","y"," ","c","l","e","a","n">>,
      <<"l","a","u","n","d","r","y">>,
      <<"f","u","n","e","r","a","l">>,
      <<"c","e","n","a","z","e">>,
      <<"m","e","z","a","r">>,
      <<"c","e","m","e","t","e","r","y">>>>


(* ------------------------------ geometry ------------------------------ *)
\* types.CalculateDistance (Haversine), for two points of one meridian
CalculateDistance(lat1, lng1, lat2, lng2) == Abs(lat1 - lat2) * CmPerMilliDeg

\* the distance expression of the SQL queries (spherical law of cosines)
SqlDistance(lat, lng, row) == Abs(lat - row.lat) * CmPerMilliDeg

\* the grid cell key "%.2f,%.2f" of floor(x / gridSize) * gridSize
CellKey(lat, lng) == <<lat \div GridSize, lng \div GridSize>>

(* ---------------------------- Points Engine --------------------------- *)
RECURSIVE MaxCategoryPoints(_, _)
MaxCategoryPoints(categories, i) ==
    IF i > Len(categories) THEN 0
    ELSE MaxOf(CategoryPointsTable(ToLowerCat(categories[i])),
               MaxCategoryPoints(categories, i + 1))

CategorySet(categories) == {ToLowerCat(categories[i]) : i \in 1..Len(categories)}

\* variant: a low rating costs nothing
RatingBonusNoPenalty(rating) ==
    IF rating = Nil THEN 0
    ELSE IF rating >= 45 THEN 15
    ELSE IF rating >= 40 THEN 10
    ELSE IF rating >= 35 THEN 5
    ELSE 0

RatingBonus(rating) ==
    IF rating = Nil THEN 0
    ELSE IF rating >= 45 THEN 15
    ELSE IF rating >= 40 THEN 10
    ELSE IF rating >= 35 THEN 5
    ELSE IF rating >= 30 THEN 0
    ELSE -10

PopularityBonus(userRatingsTotal) ==
    IF userRatingsTotal = Nil THEN 0
    ELSE IF userRatingsTotal >= 1000 THEN 20
    ELSE IF userRatingsTotal >= 500 THEN 15
    ELSE IF userRatingsTotal >= 200 THEN 10
    ELSE IF userRatingsTotal >= 50 THEN 5
    ELSE IF userRatingsTotal >= 10 THEN 0
    ELSE -5

SpecialBonus(categories) ==
    LET categorySet == CategorySet(categories) IN
      (IF "historical_site" \in categorySet /\ "tourist_attraction" \in categorySet
       THEN 15 ELSE 0)
    + (IF "natural_feature" \in categorySet /\ "tourist_attraction" \in categorySet
       THEN 10 ELSE 0)
    + (IF "museum" \in categorySet /\ "art_gallery" \in categorySet
       THEN 5 ELSE 0)

\* variant: the upper limit of the clamp is missing
ClampPointsNoCeiling(totalPoints) ==
    IF totalPoints < 10 THEN 10 ELSE totalPoints

\* the clamp to 10..60 of CalculatePlacePoints
ClampPoints(totalPoints) ==
    IF totalPoints < 10 THEN 10
    ELSE IF totalPoints > 60 THEN 60
    ELSE totalPoints

CalculatePlacePoints(categories, rating, userRatingsTotal) ==
    LET maxCategoryPoints == MaxCategoryPoints(categories, 1)
        basePoints == IF maxCategoryPoints > 0 THEN maxCategoryPoints ELSE 15
        totalPoints == basePoints + RatingBonus(rating)
                       + PopularityBonus(userRatingsTotal) + SpecialBonus(categories)
    IN ((ClampPoints(totalPoints) + 2) \div 5) * 5

(* -------------------------- Importance Scorer ------------------------- *)
\* variant: the review count below 10 is in the band of 10
PopularityPartFromTen(total) ==
    IF total = Nil THEN 0
    ELSE IF total >= 1000 THEN 50
    ELSE IF total >= 500 THEN 40
    ELSE IF total >= 200 THEN 30
    ELSE IF total >= 100 THEN 25
    ELSE IF total >= 50 THEN 20
    ELSE IF total >= 20 THEN 15
    ELSE 10

\* the switch over UserRatingsTotal
PopularityPart(total) ==
    IF total = Nil THEN 0
    ELSE IF total >= 1000 THEN 50
    ELSE IF total >= 500 THEN 40
    ELSE IF total >= 200 THEN 30
    ELSE IF total >= 100 THEN 25
    ELSE IF total >= 50 THEN 20
    ELSE IF total >= 20 THEN 15
    ELSE IF total >= 10 THEN 10
    ELSE 5

\* the switch over one category, lowered
CategorySignificance(category) ==
    IF category \in {"tourist_attraction", "museum", "historical_site",
                     "natural_feature"} THEN 30
    ELSE IF category \in {"park", "restaurant", "shopping_mall", "theater"} THEN 20
    ELSE IF category \in {"cafe", "store", "gym"} THEN 10
    ELSE 5

\* variant: the most significant category counts, not the first
CategoryPartBest(types) ==
    IF Len(types) = 0 THEN 0
    ELSE LET all == {CategorySignificance(ToLowerCat(types[i])) : i \in 1..Len(types)}
         IN CHOOSE m \in all : \A o \in all : o <= m

\* the loop over the categories, left after its first round
CategoryPart(types) ==
    IF Len(types) = 0 THEN 0 ELSE CategorySignificance(ToLowerCat(types[1]))

\* the score is kept exact: (rating - 3.0) * 10 is rating (in tenths) - 30
calculatePlaceImportanceScore(place) ==
    LET ratingPart == IF place.rating = Nil THEN 0 ELSE place.rating - 30
    IN ratingPart + PopularityPart(place.reviews) + CategoryPart(place.types)

Swap(s, i, j) == [s EXCEPT ![i] = s[j], ![j] = s[i]]

\* the two nested loops of sortPlacesByImportance, on the copy
RECURSIVE SortLoop(_, _, _)
SortLoop(s, i, j) ==
    IF i > Len(s) - 1 THEN s
    ELSE IF j > Len(s) THEN SortLoop(s, i + 1, i + 2)
    ELSE IF calculatePlaceImportanceScore(s[i]) < calculatePlaceImportanceScore(s[j])
         THEN SortLoop(Swap(s, i, j), i, j + 1)
         ELSE SortLoop(s, i, j + 1)

\* variant: the copy is returned as it is
sortPlacesByImportanceUnsorted(places) == places

sortPlacesByImportance(places) == SortLoop(places, 1, 2)

\* variant: the loops run on the caller's slice
SortedInPlace(places) ==
    [places |-> sortPlacesByImportance(places),
     sorted |-> sortPlacesByImportance(places)]

\* the caller's slice after the call, and the slice returned: the loops run on
\* the copy made by make and copy
SortedCopy(places) ==
    [places |-> places, sorted |-> sortPlacesByImportance(places)]

(* --------------------------- Candidate Filter ------------------------- *)
HasQualityThreshold(c) == c \in {"restaurant", "cafe", "store", "lodging", "bar"}

\* GetPlaceFiltering().QualityThresholds; ratings in tenths
QualityThreshold(c) ==
    CASE c = "restaurant" ->
           [MinRating |-> 35, MinUserRatingsTotal |-> 10, RequiredKeywords |-> <<>>,
            ExcludedKeywords |-> << <<"t","a","k","e">>,
                                    <<"t","a","k","e","a","w","a","y">>,
                                    <<"d","e","l","i","v","e","r","y">>,
                                    <<"f","a","s","t"," ","f","o","o","d">>,
                                    <<"d","r","i","v","e">> >>]
      [] c = "cafe" ->
           [MinRating |-> 35, MinUserRatingsTotal |-> 5, RequiredKeywords |-> <<>>,
            ExcludedKeywords |-> << <<"t","a","k","e","a","w","a","y">>,
                                    <<"d","e","l","i","v","e","r","y">> >>]
      [] c = "store" ->
           [MinRating |-> 30, MinUserRatingsTotal |-> 5,
            RequiredKeywords |-> << <<"b","o","u","t","i","q","u","e">>,
                                    <<"g","a","l","l","e","r","y">>,
                                    <<"a","r","t">>,
                                    <<"a","n","t","i","q","u","e">>,
                                    <<"s","p","e","c","i","a","l","t","y">> >>,
            ExcludedKeywords |-> <<>>]
      [] c = "lodging" ->
           [MinRating |-> 30, MinUserRatingsTotal |-> 10, RequiredKeywords |-> <<>>,
            ExcludedKeywords |-> <<>>]
      [] c = "bar" ->
           [MinRating |-> 35, MinUserRatingsTotal |-> 15,
            RequiredKeywords |-> << <<"r","e","s","t","a","u","r","a","n","t">>,
                                    <<"r","o","o","f","t","o","p">>,
                                    <<"c","o","c","k","t","a","i","l">>,
                                    <<"w","i","n","e">>,
                                    <<"p","u","b">> >>,
            ExcludedKeywords |-> <<>>]

FailsThreshold(c, nameLower, rating, userRatingsTotal) ==
    LET threshold == QualityThreshold(c) IN
    \/ rating # Nil /\ rating < threshold.MinRating
    \/ userRatingsTotal # Nil /\ userRatingsTotal < threshold.MinUserRatingsTotal
    \/ /\ Len(threshold.RequiredKeywords) > 0
       /\ ~ \E k \in 1..Len(threshold.RequiredKeywords) :
              Contains(nameLower, ToLowerName(threshold.RequiredKeywords[k]))
    \/ \E k \in 1..Len(threshold.ExcludedKeywords) :
           Contains(nameLower, ToLowerName(threshold.ExcludedKeywords[k]))

\* variant: the filter without its name test
ShouldExcludePlaceNoNameTest(categories, name, rating, userRatingsTotal) ==
    LET nameLower == ToLowerName(name) IN
    \/ \E i \in 1..Len(categories) : ToLowerCat(categories[i]) \in ExcludedCategories
    \/ \E i \in 1..Len(categories) :
           /\ HasQualityThreshold(ToLowerCat(categories[i]))
           /\ FailsThreshold(ToLowerCat(categories[i]), nameLower, rating,
                             userRatingsTotal)

ShouldExcludePlace(categories, name, rating, userRatingsTotal) ==
    LET nameLower == ToLowerName(name) IN
    \/ \E i \in 1..Len(categories) : ToLowerCat(categories[i]) \in ExcludedCategories
    \/ \E k \in 1..Len(suspiciousKeywords) : Contains(nameLower, suspiciousKeywords[k])
    \/ \E i \in 1..Len(categories) :
           /\ HasQualityThreshold(ToLowerCat(categories[i]))
           /\ FailsThreshold(ToLowerCat(categories[i]), nameLower, rating,
                             userRatingsTotal)

(* --------------------- Spatial Distribution Selector ------------------ *)
AlreadySelected(selected, place) ==
    \E k \in 1..Len(selected) : selected[k].gid = place.gid

\* variant: the third pass without its distance test
TooCloseUnchecked(selected, place) == FALSE

TooClose(selected, place) ==
    \E k \in 1..Len(selected) :
        CalculateDistance(place.lat, place.lng, selected[k].lat, selected[k].lng)
            < MinSpacingCm

\* each pass carries [selected, occupiedCells]
RECURSIVE FirstPass(_, _, _, _)
FirstPass(candidates, i, acc, maxPlaces) ==
    IF i > Len(candidates) \/ Len(acc.selected) >= maxPlaces THEN acc
    ELSE LET place == candidates[i] IN
         IF calculatePlaceImportanceScore(place) >= HighImportance
         THEN FirstPass(candidates, i + 1,
                        [selected |-> Append(acc.selected, place),
                         occupiedCells |-> acc.occupiedCells
                                           \cup {CellKey(place.lat, place.lng)}],
                        maxPlaces)
         ELSE FirstPass(candidates, i + 1, acc, maxPlaces)

RECURSIVE SecondPass(_, _, _, _)
SecondPass(candidates, i, acc, maxPlaces) ==
    IF i > Len(candidates) \/ Len(acc.selected) >= maxPlaces THEN acc
    ELSE LET place == candidates[i] IN
         IF ~ AlreadySelected(acc.selected, place)
            /\ CellKey(place.lat, place.lng) \notin acc.occupiedCells
         THEN SecondPass(candidates, i + 1,
                         [selected |-> Append(acc.selected, place),
                          occupiedCells |-> acc.occupiedCells
                                            \cup {CellKey(place.lat, place.lng)}],
                         maxPlaces)
         ELSE SecondPass(candidates, i + 1, acc, maxPlaces)

RECURSIVE ThirdPass(_, _, _, _)
ThirdPass(candidates, i, acc, maxPlaces) ==
    IF i > Len(candidates) \/ Len(acc.selected) >= maxPlaces THEN acc
    ELSE LET place == candidates[i] IN
         IF ~ AlreadySelected(acc.selected, place) /\ ~ TooClose(acc.selected, place)
         THEN ThirdPass(candidates, i + 1,
                        [acc EXCEPT !.selected = Append(acc.selected, place)],
                        maxPlaces)
         ELSE ThirdPass(candidates, i + 1, acc, maxPlaces)

\* variant: the cells of the known places are not marked
selectBestDistributedPlacesIgnoresKnown(candidates, existing, maxPlaces) ==
    IF Len(candidates) = 0 THEN <<>>
    ELSE LET start == [selected |-> <<>>, occupiedCells |-> {}]
             one == FirstPass(candidates, 1, start, maxPlaces)
             two == SecondPass(candidates, 1, one, maxPlaces)
             three == ThirdPass(candidates, 1, two, maxPlaces)
         IN three.selected

\* variant: the selection without the first pass
selectBestDistributedPlacesNoOverride(candidates, existing, maxPlaces) ==
    IF Len(candidates) = 0 THEN <<>>
    ELSE LET start == [selected |-> <<>>,
                       occupiedCells |-> {CellKey(p.lat, p.lng) : p \in existing}]
             two == SecondPass(candidates, 1, start, maxPlaces)
             three == ThirdPass(candidates, 1, two, maxPlaces)
         IN three.selected

\* variant: the third pass keeps filling after the target count
selectBestDistributedPlacesOverfill(candidates, existing, maxPlaces) ==
    IF Len(candidates) = 0 THEN <<>>
    ELSE LET start == [selected |-> <<>>,
                       occupiedCells |-> {CellKey(p.lat, p.lng) : p \in existing}]
             one == FirstPass(candidates, 1, start, maxPlaces)
             two == SecondPass(candidates, 1, one, maxPlaces)
             three == ThirdPass(candidates, 1, two, Len(candidates))
         IN three.selected

\* existing: the set of known places (PlaceForClustering), used for their cells only
selectBestDistributedPlaces(candidates, existing, maxPlaces) ==
    IF Len(candidates) = 0 THEN <<>>
    ELSE LET start == [selected |-> <<>>,
                       occupiedCells |-> {CellKey(p.lat, p.lng) : p \in existing}]
             one == FirstPass(candidates, 1, start, maxPlaces)
             two == SecondPass(candidates, 1, one, maxPlaces)
             three == ThirdPass(candidates, 1, two, maxPlaces)
         IN three.selected

(* ------------------------------ place store --------------------------- *)
\* the models.Place built from a selected candidate; id is filled on insert
PlaceFromCandidate(place) ==
    [id |-> 0,
     gid |-> place.gid,
     name |-> place.name,
     lat |-> place.lat,
     lng |-> place.lng,
     cats |-> place.types,
     basePoints |-> CalculatePlacePoints(place.types, place.rating, place.reviews),
     rating |-> place.rating,
     reviews |-> place.reviews,
     isVerified |-> FALSE]

\* variant: a plain INSERT, without the conflict clause
UpsertAlwaysInserts(st, dbPlace, newId) == st \cup {[dbPlace EXCEPT !.id = newId]}

\* variant: the conflict is detected on the name, not on the external identifier
UpsertConflictOnName(st, dbPlace, newId) ==
    IF \E row \in st : row.name = dbPlace.name
    THEN {IF row.name = dbPlace.name
          THEN [row EXCEPT !.lat = dbPlace.lat,
                           !.lng = dbPlace.lng,
                           !.cats = dbPlace.cats,
                           !.rating = dbPlace.rating,
                           !.reviews = dbPlace.reviews]
          ELSE row : row \in st}
    ELSE st \cup {[dbPlace EXCEPT !.id = newId]}

\* variant: base_points is among the columns updated on conflict
UpsertPlaceRewritesPoints(st, dbPlace, newId) ==
    IF \E row \in st : row.gid = dbPlace.gid
    THEN {IF row.gid = dbPlace.gid THEN [dbPlace EXCEPT !.id = row.id] ELSE row
          : row \in st}
    ELSE st \cup {[dbPlace EXCEPT !.id = newId]}

\* variant: nothing is written
UpsertPlaceWritesNothing(st, dbPlace, newId) == st

\* INSERT ... ON CONFLICT (google_place_id) DO UPDATE SET name, latitude, longitude,
\* address, categories, rating, user_ratings_total, ...; atomic for the row
UpsertPlace(st, dbPlace, newId) ==
    IF \E row \in st : row.gid = dbPlace.gid
    THEN {IF row.gid = dbPlace.gid
          THEN [row EXCEPT !.name = dbPlace.name,
                           !.lat = dbPlace.lat,
                           !.lng = dbPlace.lng,
                           !.cats = dbPlace.cats,
                           !.rating = dbPlace.rating,
                           !.reviews = dbPlace.reviews]
          ELSE row : row \in st}
    ELSE st \cup {[dbPlace EXCEPT !.id = newId]}

\* the places within 10 km of the centre, the selector's spatial context
ExistingPlaces(st, lat, lng) ==
    {row \in st : SqlDistance(lat, lng, row) <= ExistingRadiusCm}

(* ------------------------------ storage query ------------------------- *)
\* WHERE distance <= radius [AND category = ANY(categories)]
MatchingRows(st, q) ==
    {row \in st :
        /\ SqlDistance(q.lat, q.lng, row) <= q.radius
        /\ q.category # "" => \E i \in 1..Len(row.cats) : row.cats[i] = q.category}

VARIABLE posts  \* the posts table: who has posted where; deleted rows stay, marked

\* ORDER BY distance: every order of the rows that is non-decreasing in distance
RECURSIVE OrderedByDistance(_, _, _)
OrderedByDistance(S, lat, lng) ==
    IF S = {} THEN {<<>>}
    ELSE LET nearest == {m \in S : \A o \in S :
                             SqlDistance(lat, lng, m) <= SqlDistance(lat, lng, o)}
         IN UNION {{<<m>> \o t : t \in OrderedByDistance(S \ {m}, lat, lng)}
                   : m \in nearest}

\* variant: the query without its LIMIT
LimitUncapped(s, n) == s

\* LIMIT
Limit(s, n) == SubSeq(s, 1, MinOf(n, Len(s)))

\* variant: the first-ever bonus is given whoever has posted
PointValueBonusAlways(row, user, ps) ==
    IF \E p \in ps : p.place = row.id /\ p.user = user
    THEN USER_VISITED_POINTS
    ELSE row.basePoints + NO_POSTS_BONUS_POINTS

\* the point_value column: the CASE over the posts table; its subqueries read
\* every row, the rows marked deleted as well
PointValue(row, user, ps) ==
    IF \E p \in ps : p.place = row.id /\ p.user = user
    THEN USER_VISITED_POINTS
    ELSE IF ~ \E p \in ps : p.place = row.id
    THEN row.basePoints + NO_POSTS_BONUS_POINTS
    ELSE row.basePoints

MarkerOf(row, q) ==
    [id |-> row.id, lat |-> row.lat, lng |-> row.lng,
     pointValue |-> PointValue(row, q.user, posts),
     distance |-> SqlDistance(q.lat, q.lng, row)]

\* the answers the storage query may give on store st
RunQuery(st, q) ==
    {[i \in 1..Len(s) |-> MarkerOf(s[i], q)] :
        s \in {Limit(o, q.limit) : o \in OrderedByDistance(MatchingRows(st, q), q.lat, q.lng)}}

(* --------------------------- query parameters ------------------------- *)
\* a query-string parameter: absent, not a number, or a number
Absent == [k |-> "absent", v |-> 0]
Bad == [k |-> "bad", v |-> 0]
Num(n) == [k |-> "num", v |-> n]

\* parseFloat, parseInt: 0 for an empty or unparseable string
parseNumber(p) == IF p.k = "num" THEN p.v ELSE 0

\* gin's ShouldBindQuery on NearbyPlacesQuery: every supplied field parses,
\* latitude, longitude and zoomLevel are non-zero, zoomLevel is in 1..20
BindsDirectly(form) ==
    /\ \A f \in {"latitude", "longitude", "zoomLevel", "radius", "maxPlaces"} :
           form[f].k # "bad"
    /\ parseNumber(form.latitude) # 0
    /\ parseNumber(form.longitude) # 0
    /\ parseNumber(form.zoomLevel) # 0
    /\ parseNumber(form.zoomLevel) >= 1
    /\ parseNumber(form.zoomLevel) <= 20

\* the nested params[...] fallback and its checks
NestedAccepted(form) ==
    /\ ~ (parseNumber(form.latitude) = 0 \/ parseNumber(form.longitude) = 0
          \/ parseNumber(form.zoomLevel) = 0)
    /\ ~ (parseNumber(form.zoomLevel) < 1 \/ parseNumber(form.zoomLevel) > 20)

\* variant: the upper limit of the clamp is missing
ClampRadiusNoCeiling(radius) ==
    IF radius < MinRadiusCm THEN MinRadiusCm ELSE radius

\* radius resolution, in centimetres: (radius m / 1000) * (2 - zoom/20) km
\* is radius * 5 * (40 - zoom) cm
ClampRadius(radius) ==
    IF radius < MinRadiusCm THEN MinRadiusCm
    ELSE IF radius > MaxRadiusCm THEN MaxRadiusCm
    ELSE radius

\* variant: the zoom level is left out
ResolveRadiusIgnoresZoom(queryRadius, zoomLevel) ==
    ClampRadius((IF queryRadius > 0 THEN queryRadius ELSE DefaultRadiusM) * 100)

ResolveRadius(queryRadius, zoomLevel) ==
    LET base == IF queryRadius > 0 THEN queryRadius ELSE DefaultRadiusM
        zoom == IF zoomLevel > 20 THEN 20 ELSE zoomLevel
    IN ClampRadius(base * 5 * (40 - zoom))

ResolveLimit(maxPlaces) ==
    IF maxPlaces > 0 /\ maxPlaces < DefaultLimit THEN maxPlaces ELSE DefaultLimit

\* the query the handler works with, from the form that was accepted
ResolvedQuery(form, user) ==
    [user |-> user,
     lat |-> parseNumber(form.latitude),
     lng |-> parseNumber(form.longitude),
     radius |-> ResolveRadius(parseNumber(form.radius), parseNumber(form.zoomLevel)),
     limit |-> ResolveLimit(parseNumber(form.maxPlaces)),
     category |-> form.category]

\* lines 85-121: "ok" with the accepted form, or the client error
BindQuery(raw) ==
    IF BindsDirectly(raw.direct) THEN [status |-> 0, form |-> raw.direct]
    ELSE IF NestedAccepted(raw.nested) THEN [status |-> 0, form |-> raw.nested]
    ELSE [status |-> 400, form |-> raw.nested]

(* ------------------------------ model inputs -------------------------- *)
\* the query centre the callers use, and a latitude outside -90..90 degrees
Centre == [lat |-> 41002, lng |-> 29000]
OutOfRange == [lat |-> 95000]

Candidate(gid, name, types, rating, reviews, lat) ==
    [gid |-> gid, name |-> name, types |-> types, rating |-> rating,
     reviews |-> reviews, lat |-> lat, lng |-> Centre.lng]

\* the provider's records: two versions of place 1, a cafe 111 m from each,
\* a place with a suspicious name, and a park in the next grid cell
CastleA == Candidate(1, <<"C","a","s","t","l","e">>,
                     <<"tourist_attraction", "castle">>, 45, 1500, 41001)
CastleB == Candidate(1, <<"O","l","d"," ","C","a","s","t","l","e">>,
                     <<"Museum">>, 30, 30, 41004)
CafeC == Candidate(2, <<"C","a","f","e">>, <<"cafe">>, 40, 50, 41003)
BankD == Candidate(3, <<"C","i","t","y"," ","B","a","n","k">>, <<"park">>, 45, 200, 41005)
ParkE == Candidate(4, <<"P","a","r","k">>, <<"park">>, Nil, Nil, 41011)
\* a place of high importance whose name holds a keyword in capitals
SalonH == Candidate(5, <<"H","A","I","R"," ","P","a","l","a","c","e">>,
                    <<"tourist_attraction">>, 50, 1500, 41021)
Catalogue == {CastleA, CastleB, CafeC, BankD, ParkE, SalonH}

\* ShouldExcludePlace on the provider's records, evaluated once
Excluded ==
    {place \in Catalogue :
        ShouldExcludePlace(place.types, place.name, place.rating, place.reviews)}

\* the filter loop of the ingestion: the candidates that are kept, in order
FilterCandidates(results) == SelectSeq(results, LAMBDA place : place \notin Excluded)

\* a store filled earlier by the ingestion of a page of 20 parks, 2.2 km apart
SeedGids == 101..120
SeedCandidate(i) == Candidate(100 + i, <<"P","a","r","k">>, <<"park">>, Nil, Nil,
                              Centre.lat + 20 * i)
SeedStore == {[PlaceFromCandidate(SeedCandidate(i)) EXCEPT !.id = i] : i \in 1..20}

\* the pages a provider response may carry: up to MaxResults different records
Pages(cands) ==
    UNION {{p \in [1..n -> cands] : \A i, j \in 1..n : i # j => p[i] # p[j]}
           : n \in 0..MaxResults}

\* what one provider call may end in
ProviderFailures ==
    {[kind |-> k, status |-> "", results |-> <<>>, next |-> FALSE] :
        k \in {"nokey", "network", "decode"}}
    \cup {[kind |-> "response", status |-> s, results |-> <<>>, next |-> FALSE] :
        s \in {"REQUEST_DENIED", "OVER_QUERY_LIMIT", "INVALID_REQUEST", "UNKNOWN_ERROR"}}
ProviderAnswers(cands) ==
    {[kind |-> "response", status |-> "OK", results |-> p, next |-> n] :
        p \in Pages(cands), n \in BOOLEAN}
    \cup {[kind |-> "response", status |-> "ZERO_RESULTS", results |-> <<>>,
           next |-> FALSE]}
\* the provider of the main specification: two versions of place 1, a cafe and
\* a record the name filter drops
ProviderResponses ==
    ProviderFailures \cup ProviderAnswers({CastleA, CastleB, CafeC, BankD})

Form(lat, lng, zoom, radius, maxPlaces, category) ==
    [latitude |-> lat, longitude |-> lng, zoomLevel |-> zoom, radius |-> radius,
     maxPlaces |-> maxPlaces, category |-> category]
EmptyForm == Form(Absent, Absent, Absent, Absent, Absent, "")
BaseForm == Form(Num(Centre.lat), Num(Centre.lng), Num(20), Absent, Absent, "")

\* the forms a caller sends: the base query with one group of parameters varied
Forms ==
    {Form(lat, Num(Centre.lng), Num(20), Absent, Absent, "") :
        lat \in {Absent, Bad, Num(0), Num(OutOfRange.lat), Num(-OutOfRange.lat)}}
    \cup {Form(Num(Centre.lat), lng, Num(20), Absent, Absent, "") :
        lng \in {Absent, Bad, Num(0)}}
    \cup {Form(Num(Centre.lat), Num(Centre.lng), zoom, radius, Absent, "") :
        zoom \in {Absent, Bad, Num(-1), Num(0), Num(1), Num(10), Num(20), Num(21)},
        radius \in {Absent, Bad, Num(-5), Num(0), Num(10), Num(1000), Num(50000),
                    Num(10000000)}}
    \cup {Form(Num(Centre.lat), Num(Centre.lng), Num(20), radius, maxPlaces, category) :
        radius \in {Absent, Num(50000)},
        maxPlaces \in {Absent, Num(-1), Num(1), Num(60)},
        category \in {"", "park"}}

\* the requests: parameters sent directly, or nested as params[...]
RawQueries ==
    {[auth |-> TRUE, direct |-> f, nested |-> EmptyForm] : f \in Forms}
    \cup {[auth |-> TRUE, direct |-> EmptyForm, nested |-> f] : f \in Forms}
    \cup {[auth |-> TRUE, direct |-> [BaseForm EXCEPT !.radius = Bad], nested |-> BaseForm],
          [auth |-> FALSE, direct |-> BaseForm, nested |-> EmptyForm]}

(* ------------------------------- state -------------------------------- *)
VARIABLES
    store,           \* the places table
    pc,              \* where each request handler stands
    query,           \* the resolved query of the request
    markers,         \* the markers of the first storage query
    queryErr,        \* result.Error of the first storage query
    pageCount,       \* ingestion: pages fetched before this one
    pageToken,       \* ingestion: TRUE iff the page is asked for by token
    selectedPlaces,  \* ingestion: selected candidates not yet upserted
    nextPageToken,   \* ingestion: TRUE iff the page's response carried a token
    resp,            \* the response sent, status 0 while none is
    valid,           \* history: the request supplied valid coordinates and zoom
    trace,           \* history: waits and provider requests of the ingestion call
    ingResult,       \* history: "none", "ok" or "fail", what the ingestion returned
    lastUpsert,      \* history: "none", "saved" or "failed", the latest upsert of the call
    cand,            \* scoring run: the candidate that is priced
    points,          \* scoring run: its point value, Nil before it is priced
    call,            \* function run: the function called and its arguments
    ret              \* function run: what the call returned, once it has

storeVars == <<store, posts>>
handlerVars == <<pc, query, markers, queryErr, resp>>
ingestVars == <<pageCount, pageToken, selectedPlaces, nextPageToken>>
historyVars == <<valid, trace, ingResult, lastUpsert>>
callVars == <<call, ret>>
scoringVars == <<cand, points, callVars>>
vars == <<storeVars, handlerVars, ingestVars, historyVars, scoringVars>>

Reqs == {1, 2}
NoQuery == [user |-> 0, lat |-> 0, lng |-> 0, radius |-> 0, limit |-> 0, category |-> ""]
NoResp == [status |-> 0, markers |-> <<>>]
NoCandidate == Candidate(0, <<>>, <<>>, Nil, Nil, 0)
NoCall == [fn |-> "none"]
NoRet == [done |-> FALSE]

InitRequests ==
    /\ pc = [r \in Reqs |-> "idle"]
    /\ query = [r \in Reqs |-> NoQuery]
    /\ markers = [r \in Reqs |-> <<>>]
    /\ queryErr = [r \in Reqs |-> FALSE]
    /\ pageCount = [r \in Reqs |-> 0]
    /\ pageToken = [r \in Reqs |-> FALSE]
    /\ selectedPlaces = [r \in Reqs |-> <<>>]
    /\ nextPageToken = [r \in Reqs |-> FALSE]
    /\ resp = [r \in Reqs |-> NoResp]
    /\ valid = [r \in Reqs |-> FALSE]
    /\ trace = [r \in Reqs |-> <<>>]
    /\ ingResult = [r \in Reqs |-> "none"]
    /\ lastUpsert = [r \in Reqs |-> "none"]

\* no function run
InitCalls == call = NoCall /\ ret = NoRet

\* a database in use: the table holds what earlier runs ingested
Init ==
    /\ store = SeedStore
    /\ posts = {}
    /\ InitRequests
    /\ cand = NoCandidate
    /\ points = Nil
    /\ InitCalls

(* --------------------------- Nearby Query Service --------------------- *)
Respond(r, status, ms) ==
    /\ resp' = [resp EXCEPT ![r] = [status |-> status, markers |-> ms]]
    /\ pc' = [pc EXCEPT ![r] = "done"]

\* a caller supplies valid input when the direct or the nested parameters hold
\* a latitude in -90..90, a longitude in -180..180 and a zoom level in 1..20
ValidForm(form) ==
    /\ form.latitude.k = "num" /\ form.longitude.k = "num" /\ form.zoomLevel.k = "num"
    /\ form.latitude.v >= -90000 /\ form.latitude.v <= 90000
    /\ form.longitude.v >= -180000 /\ form.longitude.v <= 180000
    /\ form.zoomLevel.v >= 1 /\ form.zoomLevel.v <= 20
SuppliesValidInput(raw) == ValidForm(raw.direct) \/ ValidForm(raw.nested)

\* GetNearbyPlaces up to the storage query: user check, binding, validation,
\* radius and limit resolution
Receive(r, raws) ==
    /\ pc[r] = "idle"
    /\ \E raw \in raws :
         LET bound == BindQuery(raw) IN
         /\ valid' = [valid EXCEPT ![r] = SuppliesValidInput(raw)]
         /\ IF ~ raw.auth
            THEN Respond(r, 401, <<>>) /\ UNCHANGED query
            ELSE IF bound.status # 0
            THEN Respond(r, bound.status, <<>>) /\ UNCHANGED query
            ELSE /\ query' = [query EXCEPT ![r] = ResolvedQuery(bound.form, r)]
                 /\ pc' = [pc EXCEPT ![r] = "query"]
                 /\ UNCHANGED resp
    /\ UNCHANGED <<storeVars, markers, queryErr, ingestVars, trace, ingResult,
                   lastUpsert, scoringVars>>

\* variant: the ingestion is called only when the first query found nothing
NeedsIngestionWhenEmpty(rowsAffected) == rowsAffected = 0

\* variant: the ingestion is called after every first query
NeedsIngestionAlways(rowsAffected) == TRUE

\* the freshness test of the first result
NeedsIngestion(rowsAffected) == rowsAffected < FreshThreshold

\* the first storage query, the markers built from it, and the freshness test:
\* the ingestion is called, or the response is sent; a query that fails
\* yields no rows
FirstQuery(r) ==
    /\ pc[r] = "query"
    /\ \E failed \in BOOLEAN :
       \E ms \in IF failed THEN {<<>>} ELSE RunQuery(store, query[r]) :
         /\ markers' = [markers EXCEPT ![r] = ms]
         /\ queryErr' = [queryErr EXCEPT ![r] = failed]
         /\ IF NeedsIngestion(Len(ms))
            THEN /\ pc' = [pc EXCEPT ![r] = "fetch"]
                 /\ UNCHANGED resp
            ELSE Respond(r, IF failed THEN 500 ELSE 200, ms)
    /\ UNCHANGED <<storeVars, query, ingestVars, valid, trace, ingResult, lastUpsert,
                   scoringVars>>

(* --------------------------- Ingestion Orchestrator ------------------- *)
Event(ev, q) ==
    [ev |-> ev,
     lat |-> IF ev = "location" THEN q.lat ELSE 0,
     lng |-> IF ev = "location" THEN q.lng ELSE 0,
     radiusM |-> IF ev = "location"
                 THEN (MinOf(q.radius, 5000000) + 50) \div 100 ELSE 0]

\* variant: the wait is missing
SleepsNever(token) == FALSE

\* time.Sleep(2 * time.Second) is called iff the page is asked for by token
SleepsBeforeRequest(token) == token

\* the waits and the request of one page
PageEvents(token, q) ==
    (IF SleepsBeforeRequest(token) THEN <<Event("wait", q)>> ELSE <<>>)
    \o <<Event(IF token THEN "token" ELSE "location", q)>>

\* variant: the page count is not tested
MorePagesNoLimit(next, count) == next

\* the test that ends fetchAndSaveFromGooglePlacesWithToken
MorePages(next, count) == next /\ count < 2

\* where the call stands once a page's candidates are all dealt with:
\* the recursive call for the next page, or the return of nil
PageEnd(next, count) ==
    IF MorePages(next, count)
    THEN [pc |-> "fetch", pageCount |-> count + 1, pageToken |-> next, result |-> "none"]
    ELSE [pc |-> "requery", pageCount |-> count, pageToken |-> FALSE, result |-> "ok"]

\* the call returns an error
Failure(count) ==
    [pc |-> "done", pageCount |-> count, pageToken |-> FALSE, result |-> "fail"]

\* variant: a failed upsert ends the call with its error
AfterUpsertAborts(ok, rest, next, count) ==
    IF ~ ok THEN Failure(count)
    ELSE IF rest # <<>>
    THEN [pc |-> "upsert", pageCount |-> count, pageToken |-> FALSE, result |-> "none"]
    ELSE PageEnd(next, count)

\* after the upsert of one selected candidate: the loop goes on whether or not
\* the upsert failed
AfterUpsert(ok, rest, next, count) ==
    IF rest # <<>>
    THEN [pc |-> "upsert", pageCount |-> count, pageToken |-> FALSE, result |-> "none"]
    ELSE PageEnd(next, count)

\* the status test of the provider's response
StatusAccepted(status) == status = "OK" \/ status = "ZERO_RESULTS"

\* filter, rank and select the records of one page
SelectFromPage(results, st, q) ==
    selectBestDistributedPlaces(sortPlacesByImportance(FilterCandidates(results)),
                                ExistingPlaces(st, q.lat, q.lng), MaxPerPage)

\* variant: the error of the ingestion is answered
ResponseAfterFailureAsError(ms, failed) == [status |-> 500, markers |-> <<>>]

\* the response after an ingestion that returned an error
ResponseAfterFailure(ms, failed) ==
    IF Len(ms) = 0 THEN [status |-> 200, markers |-> <<>>]
    ELSE IF failed THEN [status |-> 500, markers |-> <<>>]
    ELSE [status |-> 200, markers |-> ms]

Continue(r, to) ==
    /\ pageCount' = [pageCount EXCEPT ![r] = to.pageCount]
    /\ pageToken' = [pageToken EXCEPT ![r] = to.pageToken]
    /\ ingResult' = [ingResult EXCEPT ![r] = to.result]
    /\ IF to.result = "fail"
       THEN LET answer == ResponseAfterFailure(markers[r], queryErr[r])
            IN Respond(r, answer.status, answer.markers)
       ELSE /\ pc' = [pc EXCEPT ![r] = to.pc]
            /\ UNCHANGED resp

\* one call of fetchAndSaveFromGooglePlacesWithToken up to its upsert loop
Fetch(r, responses) ==
    /\ pc[r] = "fetch"
    /\ IF pageCount[r] >= MaxPages
       THEN /\ Continue(r, PageEnd(FALSE, pageCount[r]))
            /\ UNCHANGED <<trace, selectedPlaces, nextPageToken>>
       ELSE \E answer \in responses :
            IF answer.kind = "nokey"
            THEN /\ Continue(r, Failure(pageCount[r]))
                 /\ UNCHANGED <<trace, selectedPlaces, nextPageToken>>
            ELSE /\ trace' = [trace EXCEPT
                       ![r] = @ \o PageEvents(pageToken[r], query[r])]
                 /\ IF answer.kind # "response" \/ ~ StatusAccepted(answer.status)
                    THEN /\ Continue(r, Failure(pageCount[r]))
                         /\ UNCHANGED <<selectedPlaces, nextPageToken>>
                    ELSE LET selected == SelectFromPage(answer.results, store, query[r])
                         IN /\ selectedPlaces' = [selectedPlaces EXCEPT ![r] = selected]
                            /\ nextPageToken' = [nextPageToken EXCEPT ![r] = answer.next]
                            /\ Continue(r, IF selected = <<>>
                                           THEN PageEnd(answer.next, pageCount[r])
                                           ELSE AfterUpsert(TRUE, selected, answer.next,
                                                            pageCount[r]))
    /\ UNCHANGED <<storeVars, query, markers, queryErr, valid, lastUpsert,
                   scoringVars>>

NewId(st) == 1 + Cardinality(st)

\* the autoincrement key hands out at most MaxInserts new rows
InsertAllowed(st, gid) ==
    \/ \E row \in st : row.gid = gid
    \/ Cardinality({row \in st : row.gid \notin SeedGids}) < MaxInserts

\* one turn of the upsert loop, and what follows the last one
Upsert(r) ==
    /\ pc[r] = "upsert"
    /\ selectedPlaces[r] # <<>>
    /\ LET place == Head(selectedPlaces[r])
           rest == Tail(selectedPlaces[r])
       IN \E ok \in BOOLEAN :
            /\ ok => InsertAllowed(store, place.gid)
            /\ store' = IF ok THEN UpsertPlace(store, PlaceFromCandidate(place),
                                               NewId(store))
                        ELSE store
            /\ lastUpsert' = [lastUpsert EXCEPT
                    ![r] = IF ok THEN "saved" ELSE "failed"]
            /\ selectedPlaces' = [selectedPlaces EXCEPT ![r] = rest]
            /\ Continue(r, AfterUpsert(ok, rest, nextPageToken[r], pageCount[r]))
    /\ UNCHANGED <<posts, query, markers, queryErr, nextPageToken, valid, trace,
                   scoringVars>>

\* the ingestion returned nil: the storage query is run again and the markers
\* rebuilt from it are answered (markers keeps those of the first query)
Requery(r) ==
    /\ pc[r] = "requery"
    /\ \E failed \in BOOLEAN :
       \E ms \in IF failed THEN {<<>>} ELSE RunQuery(store, query[r]) :
         Respond(r, IF failed THEN 500 ELSE 200, ms)
    /\ UNCHANGED <<storeVars, query, markers, queryErr, ingestVars, valid, trace,
                   ingResult, lastUpsert, scoringVars>>

\* the handler returns; the next request starts from scratch
Reset(r) ==
    /\ pc[r] = "done"
    /\ pc' = [pc EXCEPT ![r] = "idle"]
    /\ query' = [query EXCEPT ![r] = NoQuery]
    /\ markers' = [markers EXCEPT ![r] = <<>>]
    /\ queryErr' = [queryErr EXCEPT ![r] = FALSE]
    /\ pageCount' = [pageCount EXCEPT ![r] = 0]
    /\ pageToken' = [pageToken EXCEPT ![r] = FALSE]
    /\ selectedPlaces' = [selectedPlaces EXCEPT ![r] = <<>>]
    /\ nextPageToken' = [nextPageToken EXCEPT ![r] = FALSE]
    /\ resp' = [resp EXCEPT ![r] = NoResp]
    /\ valid' = [valid EXCEPT ![r] = FALSE]
    /\ trace' = [trace EXCEPT ![r] = <<>>]
    /\ ingResult' = [ingResult EXCEPT ![r] = "none"]
    /\ lastUpsert' = [lastUpsert EXCEPT ![r] = "none"]
    /\ UNCHANGED <<storeVars, scoringVars>>

(* ---------------------------- specifications -------------------------- *)
\* the requests of the main specification: the default radius (20 km), a radius
\* of 50 km that holds the 20 seeded parks, and a radius clamped to 0.1 km that
\* holds no place; sent directly or nested
MainForms ==
    {[BaseForm EXCEPT !.radius = radius] : radius \in {Absent, Num(50000), Num(10)}}
MainQueries ==
    {[auth |-> TRUE, direct |-> f, nested |-> EmptyForm] : f \in MainForms}
    \cup {[auth |-> TRUE, direct |-> EmptyForm, nested |-> BaseForm]}

\* one request at a time on a database in use, any provider behaviour
Next ==
    \/ Receive(1, MainQueries)
    \/ FirstQuery(1)
    \/ Fetch(1, ProviderResponses)
    \/ Upsert(1)
    \/ Requery(1)
    \/ Reset(1)

Spec == Init /\ [][Next]_vars

\* a fresh database, any request, and a provider that answers with a failure
\* or with a page drawn from two records
InitQuery ==
    /\ store = {}
    /\ posts = {}
    /\ InitRequests
    /\ cand = NoCandidate
    /\ points = Nil
    /\ InitCalls

NextQuery ==
    \/ Receive(1, RawQueries)
    \/ FirstQuery(1)
    \/ Fetch(1, ProviderFailures \cup ProviderAnswers({CastleA, CafeC, ParkE}))
    \/ Upsert(1)
    \/ Requery(1)
    \/ Reset(1)

SpecQuery == InitQuery /\ [][NextQuery]_vars

\* two concurrent requests for the same area on a fresh database; the provider
\* answers both with one page of versions of the same place
ConcQueries == {[auth |-> TRUE, direct |-> BaseForm, nested |-> EmptyForm]}
ConcResponses ==
    {[kind |-> "response", status |-> "OVER_QUERY_LIMIT", results |-> <<>>,
      next |-> FALSE]}
    \cup {a \in ProviderAnswers({CastleA, CastleB}) : ~ a.next}

NextConc ==
    \E r \in Reqs :
        \/ Receive(r, ConcQueries)
        \/ FirstQuery(r)
        \/ Fetch(r, ConcResponses)
        \/ Upsert(r)
        \/ Requery(r)
        \/ Reset(r)

SpecConc == InitQuery /\ [][NextConc]_vars

(* ------------------------------ scoring runs -------------------------- *)
\* categories of a priced candidate
MaxCategories == 2

ScoringCategories ==
    {"castle", "historical_site", "tourist_attraction", "natural_feature", "museum",
     "art_gallery", "Museum", "cafe", "unknown_category"}
ScoringRatings == {Nil, 0, 29, 30, 34, 35, 38, 39, 40, 44, 45, 46, 50}
ScoringReviews == {Nil, 0, 9, 10, 49, 50, 199, 200, 499, 500, 999, 1000, 1500}

ScoringCandidates ==
    {Candidate(1, <<"X">>, types, rating, reviews, Centre.lat) :
        types \in UNION {[1..n -> ScoringCategories] : n \in 0..MaxCategories},
        rating \in ScoringRatings,
        reviews \in ScoringReviews}

InitPoints ==
    /\ store = {}
    /\ posts = {}
    /\ InitRequests
    /\ cand \in ScoringCandidates
    /\ points = Nil
    /\ InitCalls

\* CalculatePlacePoints on the candidate
Price ==
    /\ points = Nil
    /\ points' = CalculatePlacePoints(cand.types, cand.rating, cand.reviews)
    /\ UNCHANGED <<storeVars, handlerVars, ingestVars, historyVars, cand, callVars>>

\* the body of the upsert loop on the candidate
SaveCandidate ==
    /\ InsertAllowed(store, cand.gid)
    /\ store' = UpsertPlace(store, PlaceFromCandidate(cand), NewId(store))
    /\ UNCHANGED <<posts, handlerVars, ingestVars, historyVars, scoringVars>>

NextPoints == Price \/ SaveCandidate

SpecPoints == InitPoints /\ [][NextPoints]_vars

(* ------------------------------ function runs ------------------------- *)
\* a run of one function: the arguments are drawn, the function is applied once
InitIdle ==
    /\ store = {}
    /\ posts = {}
    /\ InitRequests
    /\ cand = NoCandidate
    /\ points = Nil

Return(v) ==
    /\ ~ ret.done
    /\ ret' = [done |-> TRUE, v |-> v]
    /\ UNCHANGED <<storeVars, handlerVars, ingestVars, historyVars, cand, points, call>>

\* starts the next run
NextCall(calls) ==
    /\ ret.done
    /\ call' \in calls
    /\ ret' = NoRet
    /\ UNCHANGED <<storeVars, handlerVars, ingestVars, historyVars, cand, points>>

(* radius resolution *)
\* caller radii in metres (0 stands for none) and zoom levels
CallerRadii ==
    {-5, 0, 1, 50, 51, 52, 99, 100, 101, 1000, 20000, 25000, 25641, 25642, 49999,
     50000, 50001, 100000, 500000}
ZoomLevels == 1..22
RadiusCalls ==
    {[fn |-> "ResolveRadius", queryRadius |-> m, zoomLevel |-> z] :
        m \in CallerRadii, z \in ZoomLevels}

InitRadius == InitIdle /\ call \in RadiusCalls /\ ret = NoRet

ResolveRadiusCall ==
    /\ call.fn = "ResolveRadius"
    /\ Return(ResolveRadius(call.queryRadius, call.zoomLevel))

NextRadius == ResolveRadiusCall \/ NextCall(RadiusCalls)

SpecRadius == InitRadius /\ [][NextRadius]_vars

(* ---------------------- Geofence Radius Resolver --------------------- *)
\* GetPlaceRadius: the radius in metres of a category, 0 for a category the
\* table does not hold
CategoryRadiusTable(c) ==
    CASE c = "national_park" -> 1000
      [] c = "state_park" -> 800
      [] c = "regional_park" -> 500
      [] c = "country_park" -> 400
      [] c = "forest" -> 600
      [] c = "natural_feature" -> 300
      [] c = "mountain" -> 800
      [] c = "lake" -> 400
      [] c = "beach" -> 300
      [] c = "island" -> 500
      [] c = "valley" -> 400
      [] c = "desert" -> 600
      [] c = "university" -> 400
      [] c = "hospital" -> 200
      [] c = "airport" -> 800
      [] c = "train_station" -> 150
      [] c = "stadium" -> 200
      [] c = "convention_center" -> 200
      [] c = "exhibition_center" -> 200
      [] c = "fairground" -> 300
      [] c = "race_track" -> 400
      [] c = "castle" -> 300
      [] c = "palace" -> 250
      [] c = "historical_site" -> 200
      [] c = "archaeological_site" -> 250
      [] c = "ruins" -> 150
      [] c = "monument" -> 50
      [] c = "memorial" -> 30
      [] c = "park" -> 200
      [] c = "botanical_garden" -> 250
      [] c = "zoo" -> 300
      [] c = "safari_park" -> 500
      [] c = "theme_park" -> 400
      [] c = "amusement_park" -> 300
      [] c = "water_park" -> 200
      [] c = "shopping_mall" -> 150
      [] c = "shopping_center" -> 100
      [] c = "market" -> 80
      [] c = "bazaar" -> 100
      [] c = "mosque" -> 100
      [] c = "church" -> 80
      [] c = "cathedral" -> 150
      [] c = "temple" -> 100
      [] c = "synagogue" -> 60
      [] c = "shrine" -> 50
      [] c = "museum" -> 120
      [] c = "art_gallery" -> 80
      [] c = "science_museum" -> 150
      [] c = "history_museum" -> 120
      [] c = "aquarium" -> 150
      [] c = "planetarium" -> 80
      [] c = "movie_theater" -> 50
      [] c = "theater" -> 60
      [] c = "concert_hall" -> 80
      [] c = "opera_house" -> 100
      [] c = "night_club" -> 40
      [] c = "bar" -> 30
      [] c = "pub" -> 40
      [] c = "casino" -> 100
      [] c = "gym" -> 50
      [] c = "sports_complex" -> 200
      [] c = "swimming_pool" -> 80
      [] c = "golf_course" -> 300
      [] c = "tennis_court" -> 30
      [] c = "basketball_court" -> 25
      [] c = "football_field" -> 100
      [] c = "baseball_field" -> 80
      [] c = "hotel" -> 80
      [] c = "resort" -> 200
      [] c = "hostel" -> 40
      [] c = "motel" -> 50
      [] c = "bed_and_breakfast" -> 30
      [] c = "campground" -> 150
      [] c = "restaurant" -> 25
      [] c = "cafe" -> 20
      [] c = "fast_food" -> 15
      [] c = "bakery" -> 15
      [] c = "food_court" -> 50
      [] c = "brewery" -> 40
      [] c = "winery" -> 100
      [] c = "store" -> 20
      [] c = "clothing_store" -> 15
      [] c = "book_store" -> 20
      [] c = "jewelry_store" -> 10
      [] c = "electronics_store" -> 25
      [] c = "furniture_store" -> 30
      [] c = "hardware_store" -> 25
      [] c = "pharmacy" -> 15
      [] c = "supermarket" -> 40
      [] c = "bank" -> 20
      [] c = "post_office" -> 25
      [] c = "library" -> 60
      [] c = "school" -> 150
      [] c = "kindergarten" -> 50
      [] c = "bus_station" -> 80
      [] c = "subway_station" -> 40
      [] c = "taxi_stand" -> 10
      [] c = "parking" -> 30
      [] c = "gas_station" -> 30
      [] c = "tourist_attraction" -> 100
      [] c = "point_of_interest" -> 50
      [] c = "establishment" -> 30
      [] OTHER -> 0

HasCategoryRadius(c) == CategoryRadiusTable(c) > 0

DefaultRadius == 25

RECURSIVE MaxRadiusLoop(_, _, _)
\* the loop of GetPlacePostRadius over the categories
MaxRadiusLoop(categories, i, maxRadius) ==
    IF i > Len(categories) THEN maxRadius
    ELSE LET categoryLower == ToLowerCat(categories[i])
             radius == CategoryRadiusTable(categoryLower)
         IN MaxRadiusLoop(categories, i + 1,
                          IF HasCategoryRadius(categoryLower) /\ radius > maxRadius
                          THEN radius ELSE maxRadius)

RadiusType(maxRadius) ==
    IF maxRadius >= 500 THEN "very_large"
    ELSE IF maxRadius >= 200 THEN "large"
    ELSE IF maxRadius >= 100 THEN "medium"
    ELSE IF maxRadius >= 50 THEN "small_medium"
    ELSE "small"

\* variant: the loop starts from nothing
GetPlacePostRadiusNoFloor(categories) ==
    LET maxRadius == MaxRadiusLoop(categories, 1, 0)
    IN [postRadius |-> maxRadius, radiusType |-> RadiusType(maxRadius)]

\* GetPlacePostRadius: the radius in metres and its class (the description and
\* the covered area follow from these two)
GetPlacePostRadius(categories) ==
    LET maxRadius == MaxRadiusLoop(categories, 1, DefaultRadius)
    IN [postRadius |-> maxRadius, radiusType |-> RadiusType(maxRadius)]

(* geofence runs *)
GeofenceCategories ==
    {"national_park", "museum", "Museum", "tourist_attraction", "restaurant", "cafe",
     "CAFE", "jewelry_store", "unknown_category"}
GeofenceCalls ==
    {[fn |-> "GetPlacePostRadius", categories |-> cs] :
        cs \in UNION {[1..n -> GeofenceCategories] : n \in 0..MaxCategories}}

InitGeofence == InitIdle /\ call \in GeofenceCalls /\ ret = NoRet

GetPlacePostRadiusCall ==
    /\ call.fn = "GetPlacePostRadius"
    /\ Return(GetPlacePostRadius(call.categories))

NextGeofence == GetPlacePostRadiusCall \/ NextCall(GeofenceCalls)

SpecGeofence == InitGeofence /\ [][NextGeofence]_vars

(* ------------------------------- check-in ------------------------------ *)
\* A reported position is a latitude in microdegrees on the meridian of the
\* places; distances of a check-in are in millimetres.
\* calculateDistance of the post controller, and types.CalculateDistance times
\* 1000, between two latitudes in microdegrees
calculateDistance(lat1, lat2) == (Abs(lat1 - lat2) * CmPerMilliDeg) \div 100

\* the largest distance CreatePost accepts, in metres
maxDistance == 100

Users == {1, 2}

\* the places of the check-in runs: a cafe, a castle and a park
CheckinStore ==
    {[PlaceFromCandidate(CafeC) EXCEPT !.id = 1],
     [PlaceFromCandidate(CastleA) EXCEPT !.id = 2],
     [PlaceFromCandidate(ParkE) EXCEPT !.id = 3]}
UnknownPlace == 9

\* how far from the place the user reports to be, in microdegrees:
\* 0 m, 24.9 m, 25.1 m, 59.9 m, 99.96 m, 100.1 m, 200.1 m and 1000.7 m
CheckinOffsets == {0, 224, 226, 539, 899, 900, 1800, 9000}

\* a request: its shape, who sends it, the place and the reported position
CheckinCall(fn, shape, user, placeId, offset) ==
    [fn |-> fn, shape |-> shape, user |-> user, placeId |-> placeId, offset |-> offset]

CreatePostCalls(offsets) ==
    {CheckinCall("CreatePost", "ok", u, p, d) :
        u \in Users, p \in 1..3 \cup {UnknownPlace}, d \in offsets}
    \cup {CheckinCall("CreatePost", s, u, 1, 0) :
            s \in {"malformed", "nomedia"}, u \in Users}

ValidatePostLocationCalls ==
    {CheckinCall("ValidatePostLocation", "ok", u, p, d) :
        u \in Users, p \in 1..3 \cup {UnknownPlace}, d \in CheckinOffsets}
    \cup {CheckinCall("ValidatePostLocation", "malformed", u, 1, 0) : u \in Users}

\* the distance in millimetres between the reported position and the place
ReportedDistance(place, offset) ==
    calculateDistance(place.lat * 1000 + offset, place.lat * 1000)

\* CreatePost up to the transaction: the status it answers with, 201 standing
\* for "goes on to create the post"
CreatePostStatus(shape, place, offset) ==
    IF shape = "malformed" \/ shape = "nomedia" THEN 400
    ELSE IF place = {} THEN 404
    ELSE LET row == CHOOSE x \in place : TRUE IN
         IF ReportedDistance(row, offset) > maxDistance * 1000 THEN 400 ELSE 201

\* CreatePost: the checks, then the transaction that stores the post or fails
CreatePostCall ==
    /\ call.fn = "CreatePost"
    /\ ~ ret.done
    /\ LET place == {row \in store : row.id = call.placeId}
           status == CreatePostStatus(call.shape, place, call.offset)
       IN IF status # 201
          THEN ret' = [done |-> TRUE, v |-> [status |-> status]] /\ UNCHANGED posts
          ELSE \E ok \in BOOLEAN :
                 /\ posts' = IF ok
                             THEN posts \cup {[user |-> call.user, place |-> call.placeId,
                                                 deleted |-> FALSE]}
                             ELSE posts
                 /\ ret' = [done |-> TRUE, v |-> [status |-> IF ok THEN 201 ELSE 500]]
    /\ UNCHANGED <<store, handlerVars, ingestVars, historyVars, cand, points, call>>

\* ValidatePostLocation: the response; is_within_radius and can_post are
\* written as true, error is present when the position is outside the radius
ValidatePostLocationAnswer(shape, place, offset) ==
    IF shape = "malformed" THEN [status |-> 400]
    ELSE IF place = {} THEN [status |-> 404]
    ELSE LET row == CHOOSE x \in place : TRUE
             postRadius == GetPlacePostRadius(row.cats).postRadius
             isWithinRadius == ReportedDistance(row, offset) <= postRadius * 1000
         IN [status |-> 200, post_radius |-> postRadius,
             is_within_radius |-> TRUE, can_post |-> TRUE,
             error |-> ~ isWithinRadius]

ValidatePostLocationCall ==
    /\ call.fn = "ValidatePostLocation"
    /\ Return(ValidatePostLocationAnswer(call.shape,
                                         {row \in store : row.id = call.placeId},
                                         call.offset))

CheckinCalls == CreatePostCalls(CheckinOffsets) \cup ValidatePostLocationCalls

InitCheckin ==
    /\ store = CheckinStore
    /\ posts = {}
    /\ InitRequests
    /\ cand = NoCandidate
    /\ points = Nil
    /\ call \in CheckinCalls
    /\ ret = NoRet

NextCheckin == CreatePostCall \/ ValidatePostLocationCall \/ NextCall(CheckinCalls)

SpecCheckin == InitCheckin /\ [][NextCheckin]_vars


(* ------------- runs of the Spatial Distribution Selector --------------- *)
\* filtered provider records around one corner of the grid: two of high
\* importance in one cell, parks on both sides of a cell border and inside
\* one cell
TowerH == Candidate(11, <<"T","o","w","e","r">>, <<"tourist_attraction">>,
                    45, 1500, 41001)
MuseumH == Candidate(12, <<"M","u","s","e","u","m">>, <<"museum">>, 50, 1000, 41002)
ParkSouth == Candidate(13, <<"P","a","r","k"," ","S">>, <<"park">>, 40, 50, 41009)
ParkNorth == Candidate(14, <<"P","a","r","k"," ","N">>, <<"park">>, 40, 50, 41010)
ParkMid == Candidate(15, <<"P","a","r","k"," ","M">>, <<"park">>, 35, 20, 41005)
ParkNear == Candidate(16, <<"P","a","r","k"," ","K">>, <<"park">>, 35, 20, 41008)
SelectorPool == {TowerH, MuseumH, ParkSouth, ParkNorth, ParkMid, ParkNear}

MaxCandidates == 4

\* the candidate lists the ingestion passes on: sorted by importance
RankedLists ==
    {sortPlacesByImportance(s) :
        s \in {t \in UNION {[1..n -> SelectorPool] : n \in 0..MaxCandidates} :
                  \A i, j \in 1..Len(t) : i # j => t[i].gid # t[j].gid}}

\* lists in which the provider repeats a record
RepeatingLists ==
    {sortPlacesByImportance(s) :
        s \in {t \in UNION {[1..n -> {TowerH, ParkSouth, ParkMid}] : n \in 2..3} :
                  \E i, j \in 1..Len(t) : i # j /\ t[i].gid = t[j].gid}}

\* a full provider page and two more: parks one grid cell apart
PagePark(i) == Candidate(30 + i, <<"P","a","r","k">>, <<"park">>, 40, 50, 41100 + 10 * i)
FullPage == [i \in 1..(MaxPerPage + 2) |-> PagePark(i)]

\* the known places of the clustering context: their coordinates only
KnownPlaces == {{}, {[lat |-> 41015, lng |-> 29000]},
                {[lat |-> 41003, lng |-> 29000], [lat |-> 41015, lng |-> 29000]}}

SelectorTargets == 0..3

SelectorCalls ==
    {[fn |-> "selectBestDistributedPlaces", candidates |-> s, existing |-> e,
      maxPlaces |-> n] :
          s \in RankedLists \cup RepeatingLists, e \in KnownPlaces, n \in SelectorTargets}
    \cup {[fn |-> "selectBestDistributedPlaces", candidates |-> FullPage,
           existing |-> e, maxPlaces |-> MaxPerPage] : e \in KnownPlaces}

InitSelector == InitIdle /\ call \in SelectorCalls /\ ret = NoRet

selectBestDistributedPlacesCall ==
    /\ call.fn = "selectBestDistributedPlaces"
    /\ Return(selectBestDistributedPlaces(call.candidates, call.existing,
                                          call.maxPlaces))

NextSelector == NextCall(SelectorCalls) \/ selectBestDistributedPlacesCall

SpecSelector == InitSelector /\ [][NextSelector]_vars

(* --------------------- runs of the Candidate Filter -------------------- *)
\* names with a keyword in either case, alone or inside a word, and names
\* without one
FilterNames ==
    {<<"C","i","t","y"," ","B","a","n","k">>,
     <<"H","A","I","R">>,
     <<"P","h","o","t","o"," ","A","r","t">>,
     <<"K","U","A","F","Ö","R">>,
     <<"D","i","S_cedilla">>,
     <<"A","r","t"," ","G","a","l","l","e","r","y">>,
     <<"C","a","s","t","l","e">>,
     <<"C","a","f","e">>}

FilterCategories ==
    {<<>>, <<"park">>, <<"tourist_attraction", "castle">>, <<"cafe">>, <<"store">>,
     <<"bank">>, <<"Museum">>}

FilterRatings == {Nil, 20, 45, 50}
FilterTotals == {Nil, 0, 3, 1500}

ShouldExcludePlaceCalls ==
    {[fn |-> "ShouldExcludePlace", categories |-> c, name |-> n, rating |-> r,
      userRatingsTotal |-> t] :
        c \in FilterCategories, n \in FilterNames, r \in FilterRatings,
        t \in FilterTotals}

\* provider pages of up to two records
FilterPages ==
    UNION {[1..n -> {CastleA, CafeC, BankD, SalonH}] : n \in 1..2}

SelectFromPageCalls ==
    {[fn |-> "SelectFromPage", results |-> p, lat |-> Centre.lat, lng |-> Centre.lng] :
        p \in FilterPages}

FilterCalls == ShouldExcludePlaceCalls \cup SelectFromPageCalls

InitFilter == InitIdle /\ call \in FilterCalls /\ ret = NoRet

ShouldExcludePlaceCall ==
    /\ call.fn = "ShouldExcludePlace"
    /\ Return([excluded |-> ShouldExcludePlace(call.categories, call.name, call.rating,
                                               call.userRatingsTotal)])

\* the filter loop, the sort and the selection of one page: what is upserted
SelectFromPageCall ==
    /\ call.fn = "SelectFromPage"
    /\ Return([selectedPlaces |-> SelectFromPage(call.results, store, call)])

NextFilter == ShouldExcludePlaceCall \/ SelectFromPageCall \/ NextCall(FilterCalls)

SpecFilter == InitFilter /\ [][NextFilter]_vars

(* ------------------- point values seen by one user --------------------- *)
\* requests to delete the post of an owner at the first place
DeletePostCalls ==
    {[fn |-> "DeletePost", user |-> u, owner |-> o, placeId |-> 1] :
        u \in Users, o \in Users}

\* DeletePost: the owner's live post at a place is marked deleted

DeletePostCall ==
    /\ call.fn = "DeletePost"
    /\ ~ ret.done
    /\ LET post == [user |-> call.owner, place |-> call.placeId, deleted |-> FALSE]
       IN IF post \notin posts
          THEN ret' = [done |-> TRUE, v |-> [status |-> 404]] /\ UNCHANGED posts
          ELSE IF call.owner # call.user
          THEN ret' = [done |-> TRUE, v |-> [status |-> 403]] /\ UNCHANGED posts
          ELSE \E ok \in BOOLEAN :
                 /\ posts' = IF ok
                             THEN (posts \ {post}) \cup {[post EXCEPT !.deleted = TRUE]}
                             ELSE posts
                 /\ ret' = [done |-> TRUE, v |-> [status |-> IF ok THEN 200 ELSE 500]]
    /\ UNCHANGED <<store, handlerVars, ingestVars, historyVars, cand, points, call>>

\* posts at the first two places, from the place itself
ValueCalls ==
    {c \in CreatePostCalls({0}) : c.shape = "ok" /\ c.placeId \in 1..2}
    \cup DeletePostCalls

\* user 1 asks for the places around the centre; the provider has no key or
\* has nothing to add
ValueQueries == {[auth |-> TRUE, direct |-> BaseForm, nested |-> EmptyForm]}
ValueResponses ==
    {a \in ProviderFailures : a.kind = "nokey"}
    \cup {a \in ProviderAnswers({}) : a.status = "ZERO_RESULTS" /\ ~ a.next}

InitValue ==
    /\ store = CheckinStore
    /\ posts = {}
    /\ InitRequests
    /\ cand = NoCandidate
    /\ points = Nil
    /\ call \in ValueCalls
    /\ ret = NoRet

NextValue ==
    \/ CreatePostCall
    \/ DeletePostCall
    \/ NextCall(ValueCalls)
    \/ Receive(1, ValueQueries)
    \/ FirstQuery(1)
    \/ Fetch(1, ValueResponses)
    \/ Requery(1)
    \/ Reset(1)

SpecValue == InitValue /\ [][NextValue]_vars

(* ------------------- nearby queries on a filled store ------------------ *)
\* a store of 56 places 111 m apart north of the centre, every third a cafe,
\* and one place as far south as the first is north
DensePlace(i) ==
    [PlaceFromCandidate(
         Candidate(200 + i, <<"P","l","a","c","e">>,
                   IF i % 3 = 0 THEN <<"cafe">> ELSE <<"park">>, Nil, Nil,
                   IF i = 56 THEN Centre.lat - 1 ELSE Centre.lat + i))
     EXCEPT !.id = i]
DenseStore == {DensePlace(i) : i \in 1..56}

\* the requests: radius of 1 km, 3 km or the default, with and without a
\* category, and the values of maxPlaces around the default limit
MarkerForms ==
    {Form(Num(Centre.lat), Num(Centre.lng), Num(20), radius, maxPlaces, category) :
        radius \in {Absent, Num(1000), Num(3000)},
        maxPlaces \in {Absent, Num(0), Num(3), Num(49), Num(50), Num(51), Num(100)},
        category \in {"", "cafe"}}

MarkerCalls ==
    {[fn |-> "GetNearbyPlaces",
      raw |-> [auth |-> TRUE, direct |-> f, nested |-> EmptyForm]] : f \in MarkerForms}

\* the provider is not reachable, or it has nothing to add
MarkerResponses ==
    {a \in ProviderFailures : a.kind \in {"nokey", "network"}}
    \cup {a \in ProviderAnswers({}) : a.status = "ZERO_RESULTS"}

InitMarkers ==
    /\ store = DenseStore
    /\ posts = {}
    /\ InitRequests
    /\ cand = NoCandidate
    /\ points = Nil
    /\ call \in MarkerCalls
    /\ ret = NoRet

\* the next request arrives
Arrive ==
    /\ pc[1] = "idle"
    /\ call' \in MarkerCalls
    /\ UNCHANGED <<storeVars, handlerVars, ingestVars, historyVars, cand, points, ret>>

NextMarkers ==
    \/ Arrive
    \/ Receive(1, {call.raw})
    \/ FirstQuery(1)
    \/ Fetch(1, MarkerResponses)
    \/ Requery(1)
    \/ Reset(1)

SpecMarkers == InitMarkers /\ [][NextMarkers]_vars

(* ------------------- runs of the two scoring functions ----------------- *)
MaxTypes == 3

ScoreTypes ==
    UNION {[1..n -> {"museum", "Museum", "cafe", "unknown_category"}] :
               n \in 0..MaxTypes}
ScoreRatings == {Nil, 29, 46}
ScoreReviews ==
    {Nil, 0, 9, 10, 19, 20, 49, 50, 99, 100, 199, 200, 499, 500, 999, 1000, 1500}

\* one provider record, given to the Importance Scorer and to the Points Engine
ScoreCalls ==
    {[fn |-> "score", place |-> Candidate(1, <<"X">>, types, rating, reviews, Centre.lat)] :
        types \in ScoreTypes, rating \in ScoreRatings, reviews \in ScoreReviews}

InitScore == InitIdle /\ call \in ScoreCalls /\ ret = NoRet

ScoreCall ==
    /\ call.fn = "score"
    /\ Return([importance |-> calculatePlaceImportanceScore(call.place),
               points |-> CalculatePlacePoints(call.place.types, call.place.rating,
                                               call.place.reviews)])

NextScore == ScoreCall

SpecScore == InitScore /\ [][NextScore]_vars

(* ------------- one request on a fresh store, a place re-ingested -------- *)
\* the provider answers with pages of two versions of place 1, with or
\* without a token for the next page, or the request fails
RepeatResponses ==
    ProviderAnswers({CastleA, CastleB})
    \cup {a \in ProviderFailures : a.kind = "network"}

NextRepeat ==
    \/ Receive(1, ConcQueries)
    \/ FirstQuery(1)
    \/ Fetch(1, RepeatResponses)
    \/ Upsert(1)
    \/ Requery(1)

SpecRepeat == InitQuery /\ [][NextRepeat]_vars

(* ---------------------- runs of sortPlacesByImportance ------------------ *)
MaxSortLen == 3

\* records of importance 95, 45 and lower; the two banks score the same
BankTwin == [BankD EXCEPT !.gid = 6]
SortPool == {CastleA, CastleB, CafeC, BankD, BankTwin}

\* the caller's slice, and the list it held when the call was made
SortCalls ==
    {[fn |-> "sort", places |-> s, given |-> s] :
        s \in UNION {[1..n -> SortPool] : n \in 0..MaxSortLen}}

InitSort == InitIdle /\ call \in SortCalls /\ ret = NoRet

SortCall ==
    /\ call.fn = "sort"
    /\ ~ ret.done
    /\ LET run == SortedCopy(call.places)
       IN /\ ret' = [done |-> TRUE, v |-> [sorted |-> run.sorted]]
          /\ call' = [call EXCEPT !.places = run.places]
    /\ UNCHANGED <<storeVars, handlerVars, ingestVars, historyVars, cand, points>>

NextSort == SortCall

SpecSort == InitSort /\ [][NextSort]_vars
(* ------------------------------ properties ---------------------------- *)
InPointRange(p) == p >= 10 /\ p <= 60 /\ p % 5 = 0

RowsOf(gid) == {row \in store : row.gid = gid}

IsRequest(e) == e.ev \in {"location", "token"}
Requests(r) == Cardinality({i \in DOMAIN trace[r] : IsRequest(trace[r][i])})
Waits(r) == Cardinality({i \in DOMAIN trace[r] : trace[r][i].ev = "wait"})

C2_OneRowPerIdentifier ==
    /\ [](\A row \in store : Cardinality(RowsOf(row.gid)) = 1)
    /\ [][\A r \in Reqs :
            (pc[r] = "upsert" /\ selectedPlaces'[r] # selectedPlaces[r]
             /\ RowsOf(Head(selectedPlaces[r]).gid) # {})
            => Cardinality(store') = Cardinality(store)]_vars

\* place 1 was inserted from its first version and updated from its second
C2_Witness ==
    \E row \in store :
        /\ row.gid = CastleB.gid
        /\ row.name = CastleB.name
        /\ row.basePoints = CalculatePlacePoints(CastleA.types, CastleA.rating,
                                                 CastleA.reviews)
        /\ row.basePoints # CalculatePlacePoints(CastleB.types, CastleB.rating,
                                                 CastleB.reviews)

\* C3: when two concurrent requests both ingest candidates with the same external
\* identifier, every interleaving of their upserts leaves exactly one row for it.
C3_ConcurrentUpsertsConverge ==
    /\ \A row \in store : Cardinality(RowsOf(row.gid)) = 1
    /\ (\A r \in Reqs : lastUpsert[r] = "saved") => Cardinality(RowsOf(CastleA.gid)) = 1

\* both requests are in flight, both have saved a version of place 1 and ended
\* their ingestion, and the row holds the second version
C3_Witness ==
    /\ \A r \in Reqs : pc[r] = "requery" /\ lastUpsert[r] = "saved" /\ ingResult[r] = "ok"
    /\ \E row \in store : row.gid = CastleA.gid /\ row.name = CastleB.name

\* C4: when the ingestion fails, the request is answered with status 200 and the
\* markers of the storage query run before the ingestion (none if it found none).
C4_FailureIsNotAnswered ==
    \A r \in Reqs :
        ingResult[r] = "fail" =>
            /\ pc[r] = "done"
            /\ resp[r].status = 200
            /\ resp[r].markers = markers[r]

\* the provider failed on a later page and the existing markers are answered
C4_Witness ==
    \E r \in Reqs :
        /\ ingResult[r] = "fail"
        /\ Requests(r) >= 2
        /\ Len(resp[r].markers) > 0
        /\ resp[r].status = 200

\* C5: a first storage query with fewer than 20 rows is followed by the ingestion,
\* called for the centre and the resolved radius of the query (the request by
\* location carries that radius to the nearest metre), before any response;
\* after a successful ingestion the markers answered are those of the storage
\* query on the store as the ingestion left it.
C5_IngestThenRequery ==
    /\ [][\A r \in Reqs :
            (pc[r] = "query" /\ pc'[r] # "query" /\ Len(markers'[r]) < FreshThreshold)
            => (pc'[r] = "fetch" /\ resp'[r].status = 0)]_vars
    /\ [](\A r \in Reqs :
            /\ \A i \in DOMAIN trace[r] :
                 trace[r][i].ev = "location" =>
                     /\ trace[r][i].lat = query[r].lat
                     /\ trace[r][i].lng = query[r].lng
                     /\ Abs(trace[r][i].radiusM * 100 - query[r].radius) <= 50
            /\ (resp[r].status = 200 /\ ingResult[r] = "none")
               => Len(resp[r].markers) >= FreshThreshold
            /\ (resp[r].status = 200 /\ ingResult[r] = "ok")
               => resp[r].markers \in RunQuery(store, query[r]))

\* the ingestion saved a place and the answer holds more markers than the first
\* query found
C5_Witness ==
    \E r \in Reqs :
        /\ resp[r].status = 200
        /\ ingResult[r] = "ok"
        /\ lastUpsert[r] = "saved"
        /\ Len(resp[r].markers) > Len(markers[r])

\* C6: an ingestion call sends at most 3 provider requests; a page after the first
\* is asked for only when the response before carried a token and fewer than 3
\* pages were fetched; the call returns nil when no token came or 3 pages are done.
C6_AtMostThreePages ==
    \A r \in Reqs :
        /\ Requests(r) <= MaxPages
        /\ (pc[r] = "fetch" /\ pageCount[r] > 0)
           => (nextPageToken[r] /\ pageToken[r] /\ pageCount[r] < MaxPages
               /\ Requests(r) = pageCount[r])
        /\ ingResult[r] = "ok" => (~ nextPageToken[r] \/ Requests(r) = MaxPages)

\* the third page carried a token and the call returned nil
C6_Witness ==
    \E r \in Reqs :
        ingResult[r] = "ok" /\ Requests(r) = MaxPages /\ nextPageToken[r]

\* C7: a request by token comes right after a wait, the request by location is
\* the first event of the call, and a call waits at most twice.
C7_WaitBeforeTokenRequest ==
    \A r \in Reqs :
        /\ \A i \in DOMAIN trace[r] :
             /\ trace[r][i].ev = "token" => (i > 1 /\ trace[r][i - 1].ev = "wait")
             /\ trace[r][i].ev = "location" => i = 1
             /\ trace[r][i].ev = "wait" => (i < Len(trace[r]) /\ trace[r][i + 1].ev = "token")
        /\ Waits(r) <= 2

\* a call that waited twice
C7_Witness == \E r \in Reqs : Waits(r) = 2 /\ Requests(r) = 3

\* C8: after a failed upsert the loop goes on with the rest of the page, then the
\* next page is fetched if a token came and fewer than 3 pages are done, else the
\* call returns nil.
C8_FailedUpsertGoesOn ==
    [][\A r \in Reqs :
         (pc[r] = "upsert" /\ selectedPlaces'[r] # selectedPlaces[r]
          /\ lastUpsert'[r] = "failed")
         => /\ selectedPlaces'[r] = Tail(selectedPlaces[r])
            /\ store' = store
            /\ IF Tail(selectedPlaces[r]) # <<>>
               THEN pc'[r] = "upsert" /\ ingResult'[r] = "none"
               ELSE IF nextPageToken[r] /\ pageCount[r] < 2
               THEN /\ pc'[r] = "fetch"
                    /\ pageCount'[r] = pageCount[r] + 1
                    /\ ingResult'[r] = "none"
               ELSE pc'[r] = "requery" /\ ingResult'[r] = "ok"]_vars

\* an upsert failed and the rest of the page is still to be upserted
C8_Witness ==
    \E r \in Reqs :
        pc[r] = "upsert" /\ lastUpsert[r] = "failed" /\ selectedPlaces[r] # <<>>

\* C9: a request without valid coordinates and zoom level is answered with a
\* client error, without a storage query and without a provider request.
C9_InvalidInputRejected ==
    \A r \in Reqs :
        (pc[r] # "idle" /\ ~ valid[r]) =>
            /\ pc[r] = "done"
            /\ resp[r].status \in {400, 401}
            /\ ingResult[r] = "none"
            /\ trace[r] = <<>>

\* C10: the search radius of every request that reaches the storage query lies
\* in 0.1 km .. 50 km.
C10_RadiusClamped ==
    \A r \in Reqs :
        pc[r] \in {"query", "fetch", "upsert", "requery"} \/ resp[r].status \in {200, 500}
        => (query[r].radius >= MinRadiusCm /\ query[r].radius <= MaxRadiusCm)

\* a request accepted with a radius that was clamped from below
C10_Witness ==
    \E r \in Reqs : pc[r] = "fetch" /\ query[r].radius = MinRadiusCm

(* -------------------- properties of the function runs ----------------- *)
\* the clamp of a radius in centimetres to 0.1 km .. 50 km
ClampedCm(x) == IF x < 10000 THEN 10000 ELSE IF x > 5000000 THEN 5000000 ELSE x

\* the base radius in metres: the caller's when positive, 20 km otherwise
BaseMetres(m) == IF m > 0 THEN m ELSE 20000

MatchedWeights(types) ==
    {CategoryPointsTable(ToLowerCat(types[i])) :
        i \in {j \in DOMAIN types : HasCategoryPoints(ToLowerCat(types[j]))}}

ClaimedBase(types) ==
    IF MatchedWeights(types) = {} THEN 15
    ELSE CHOOSE w \in MatchedWeights(types) : \A v \in MatchedWeights(types) : v <= w

ClaimedRatingBonus(rating) ==
    CASE rating = Nil -> 0
      [] rating # Nil /\ rating >= 45 -> 15
      [] rating # Nil /\ rating >= 40 /\ rating < 45 -> 10
      [] rating # Nil /\ rating >= 35 /\ rating < 40 -> 5
      [] rating # Nil /\ rating >= 30 /\ rating < 35 -> 0
      [] rating # Nil /\ rating < 30 -> -10

ClaimedPopularityBonus(reviews) ==
    CASE reviews = Nil -> 0
      [] reviews # Nil /\ reviews >= 1000 -> 20
      [] reviews # Nil /\ reviews >= 500 /\ reviews < 1000 -> 15
      [] reviews # Nil /\ reviews >= 200 /\ reviews < 500 -> 10
      [] reviews # Nil /\ reviews >= 50 /\ reviews < 200 -> 5
      [] reviews # Nil /\ reviews >= 10 /\ reviews < 50 -> 0
      [] reviews # Nil /\ reviews < 10 -> -5

ClaimedSpecialBonus(types) ==
    LET has(c) == \E i \in DOMAIN types : ToLowerCat(types[i]) = c
        bonus(a, b, n) == IF has(a) /\ has(b) THEN n ELSE 0
    IN bonus("historical_site", "tourist_attraction", 15)
       + bonus("natural_feature", "tourist_attraction", 10)
       + bonus("museum", "art_gallery", 5)

Round5(x) == ((x + 2) \div 5) * 5
Clamp1060(x) == IF x < 10 THEN 10 ELSE IF x > 60 THEN 60 ELSE x

C13_RadiusFloor ==
    (call.fn = "GetPlacePostRadius" /\ ret.done) => ret.v.postRadius >= 25

\* a list of one category whose table radius is below the floor was resolved
C13_Witness ==
    /\ call.fn = "GetPlacePostRadius" /\ ret.done
    /\ call.categories = <<"jewelry_store">>
    /\ ret.v.postRadius = 25

\* the table radii of the categories that match the table
MatchedRadii(categories) ==
    {CategoryRadiusTable(ToLowerCat(categories[i])) :
        i \in {j \in DOMAIN categories : HasCategoryRadius(ToLowerCat(categories[j]))}}

\* C14: the geofence radius is the default (25 m) if and only if no category
\* matches the table, and with a match it is the largest radius of the matching
\* table entries.
C14_DefaultIffNoMatch ==
    (call.fn = "GetPlacePostRadius" /\ ret.done) =>
        LET radii == MatchedRadii(call.categories)
        IN /\ ret.v.postRadius = 25 <=> radii = {}
           /\ radii # {} => /\ ret.v.postRadius \in radii
                            /\ \A x \in radii : x <= ret.v.postRadius

\* the place a check-in call names, and whether the reported position lies
\* within the geofence radius resolved from the categories of that place
CalledPlace == CHOOSE row \in store : row.id = call.placeId
WithinGeofence ==
    ReportedDistance(CalledPlace, call.offset)
        <= GetPlacePostRadius(CalledPlace.cats).postRadius * 1000

\* C15: a check-in post is accepted only if the reported position is within the
\* geofence radius resolved from the categories of the place: from farther away
\* CreatePost rejects, and ValidatePostLocation reports that the user cannot post.
C15_CheckinWithinGeofence ==
    (ret.done /\ call.fn \in {"CreatePost", "ValidatePostLocation"}
     /\ call.shape = "ok" /\ call.placeId # UnknownPlace /\ ~ WithinGeofence)
    => IF call.fn = "CreatePost"
       THEN ret.v.status # 201
       ELSE ~ ret.v.can_post


(* ------------------ Spatial Distribution Selector ---------------------- *)
SelectorRun == ret.done /\ call.fn = "selectBestDistributedPlaces"

SelectorStart ==
    [selected |-> <<>>,
     occupiedCells |-> {CellKey(p.lat, p.lng) : p \in call.existing}]

\* how many candidates were selected when the first and the second pass ended
AfterFirstPass ==
    Len(FirstPass(call.candidates, 1, SelectorStart, call.maxPlaces).selected)

AfterSecondPass ==
    Len(SecondPass(call.candidates, 1,
                   FirstPass(call.candidates, 1, SelectorStart, call.maxPlaces),
                   call.maxPlaces).selected)

ShareCategory(a, b) ==
    \E i \in 1..Len(a.types), j \in 1..Len(b.types) : a.types[i] = b.types[j]

Spaced(a, b) == CalculateDistance(a.lat, a.lng, b.lat, b.lng) >= MinSpacingCm

\* C16 as stated: any two candidates accepted in the second or the third pass
\* that share a category are at least 200 m apart
C16_SecondAndThirdPassSpacing ==
    SelectorRun =>
        \A i, j \in (AfterFirstPass + 1)..Len(ret.v) :
            (i < j /\ ShareCategory(ret.v[i], ret.v[j])) => Spaced(ret.v[i], ret.v[j])

\* C16 amended: a candidate accepted in the third pass is at least 200 m from
\* every candidate selected before it, whatever their categories and passes;
\* two candidates accepted in the second pass lie in different grid cells,
\* none of them a cell of a known place or of a first-pass candidate
C16_ThirdPassSpacing ==
    SelectorRun =>
        /\ \A j \in (AfterSecondPass + 1)..Len(ret.v) :
               \A i \in 1..(j - 1) : Spaced(ret.v[i], ret.v[j])
        /\ \A j \in (AfterFirstPass + 1)..AfterSecondPass :
               /\ CellKey(ret.v[j].lat, ret.v[j].lng) \notin SelectorStart.occupiedCells
               /\ \A i \in 1..(j - 1) :
                      CellKey(ret.v[i].lat, ret.v[i].lng)
                          # CellKey(ret.v[j].lat, ret.v[j].lng)

\* a run that accepted one park in the second pass and one in the third, and
\* left out a park closer than 200 m to a selected one
C16_Witness ==
    /\ SelectorRun
    /\ AfterFirstPass < AfterSecondPass
    /\ AfterSecondPass < Len(ret.v)
    /\ Len(ret.v) < call.maxPlaces
    /\ \E k \in 1..Len(call.candidates) :
           /\ \A i \in 1..Len(ret.v) : ret.v[i].gid # call.candidates[k].gid
           /\ \E i \in 1..Len(ret.v) : ~ Spaced(ret.v[i], call.candidates[k])

\* C17: the selection holds at most N candidates (N = MaxPerPage = 20 for a
\* provider page, so at most 20 upserts per page and 60 per ingestion), and
\* it is a selection of the candidates
C17_AtMostN ==
    SelectorRun =>
        /\ Len(ret.v) <= call.maxPlaces
        /\ \A i \in 1..Len(ret.v) :
               \E k \in 1..Len(call.candidates) : call.candidates[k] = ret.v[i]
        /\ call.maxPlaces = MaxPerPage => MaxPages * Len(ret.v) <= 60

\* a full provider page: 22 selectable candidates, 20 selected
C17_Witness ==
    /\ SelectorRun
    /\ call.maxPlaces = MaxPerPage
    /\ Len(call.candidates) > MaxPerPage
    /\ Len(ret.v) = MaxPerPage

HighBefore(k) ==
    Cardinality({j \in 1..(k - 1) :
        calculatePlaceImportanceScore(call.candidates[j]) >= HighImportance})

\* C18: a candidate of importance 80 or more, with fewer than N such
\* candidates before it in the ranked list, is in the selection
C18_HighImportanceSelected ==
    SelectorRun =>
        \A k \in 1..Len(call.candidates) :
            (/\ calculatePlaceImportanceScore(call.candidates[k]) >= HighImportance
             /\ HighBefore(k) < call.maxPlaces)
            => \E i \in 1..Len(ret.v) : ret.v[i] = call.candidates[k]

\* a high-importance candidate selected in the cell of a known place, 111 m
\* from a candidate selected before it
C18_Witness ==
    /\ SelectorRun
    /\ \E i \in 2..Len(ret.v) :
           /\ calculatePlaceImportanceScore(ret.v[i]) >= HighImportance
           /\ CellKey(ret.v[i].lat, ret.v[i].lng) \in SelectorStart.occupiedCells
           /\ ~ Spaced(ret.v[i - 1], ret.v[i])

(* --------------------------- Candidate Filter -------------------------- *)
SameLetter(a, b) == ToLowerChar(a) = ToLowerChar(b)

\* the name holds one of the suspicious keywords, in either case
SuspiciousName(name) ==
    \E k \in 1..Len(suspiciousKeywords) :
        \E at \in 0..(Len(name) - Len(suspiciousKeywords[k])) :
            \A j \in 1..Len(suspiciousKeywords[k]) :
                SameLetter(name[at + j], suspiciousKeywords[k][j])

\* C19: a candidate whose name holds a suspicious keyword, in either case, is
\* rejected by the filter whatever its categories, rating and review count,
\* and is not among the places selected for the upserts of a page
C19_SuspiciousNameRejected ==
    /\ (ret.done /\ call.fn = "ShouldExcludePlace" /\ SuspiciousName(call.name))
           => ret.v.excluded
    /\ (ret.done /\ call.fn = "SelectFromPage")
           => \A i \in 1..Len(ret.v.selectedPlaces) :
                  ~ SuspiciousName(ret.v.selectedPlaces[i].name)

\* a name with a keyword in capitals is rejected although the same categories,
\* rating and review count pass under another name
C19_Witness ==
    /\ ret.done
    /\ call.fn = "ShouldExcludePlace"
    /\ SuspiciousName(call.name)
    /\ ~ Contains(call.name, <<"h","a","i","r">>)
    /\ Contains(ToLowerName(call.name), <<"h","a","i","r">>)
    /\ call.rating = 50
    /\ ~ ShouldExcludePlace(call.categories, <<"C","a","s","t","l","e">>,
                            call.rating, call.userRatingsTotal)
    /\ ret.v.excluded

(* ------------------------- dynamic point value ------------------------- *)
HasPosted(user, id) == \E p \in posts : p.user = user /\ p.place = id
NobodyPosted(id) == ~ \E p \in posts : p.place = id
BaseOf(id) == (CHOOSE row \in store : row.id = id).basePoints

\* the value the three cases give, in their order
ClaimedValue(user, id) ==
    CASE HasPosted(user, id) -> USER_VISITED_POINTS
      [] ~ HasPosted(user, id) /\ NobodyPosted(id) -> BaseOf(id) + NO_POSTS_BONUS_POINTS
      [] OTHER -> BaseOf(id)

ValuesAsClaimed(ms, user) ==
    \A i \in 1..Len(ms) : ms[i].pointValue = ClaimedValue(user, ms[i].id)

\* C20: every marker a storage query returns carries 1 if the requesting user
\* has posted at the place, else the base value plus 3 if nobody has posted
\* there, else the base value; each query reads the posts table as it stands
C20_PointValueOrder ==
    [][/\ (pc[1] = "query" /\ pc'[1] # "query" /\ ~ queryErr'[1])
              => ValuesAsClaimed(markers'[1], query[1].user)
       /\ (pc[1] = "requery" /\ resp'[1].status = 200)
              => ValuesAsClaimed(resp'[1].markers, query[1].user)]_vars

\* a response with the three cases: a place where the user and another user
\* have posted, one where only the other user has, one without posts
C20_Witness ==
    /\ resp[1].status = 200
    /\ Len(resp[1].markers) = 3
    /\ HasPosted(1, 1) /\ HasPosted(2, 1)
    /\ ~ HasPosted(1, 2) /\ HasPosted(2, 2)
    /\ NobodyPosted(3)
    /\ \E p \in posts : p.deleted
    /\ ValuesAsClaimed(resp[1].markers, 1)
    /\ {resp[1].markers[i].pointValue : i \in 1..3}
           = {USER_VISITED_POINTS, BaseOf(2), BaseOf(3) + NO_POSTS_BONUS_POINTS}

(* ------------------------ markers of a nearby query -------------------- *)
RequestedForm == call.raw.direct

\* the stored places the query of the request is about
InRadius(row) == SqlDistance(query[1].lat, query[1].lng, row) <= query[1].radius
HasCategory(row, c) == \E i \in 1..Len(row.cats) : row.cats[i] = c
Wanted ==
    {row \in store :
        InRadius(row) /\ (RequestedForm.category # "" => HasCategory(row, RequestedForm.category))}

DistanceOf(id) ==
    SqlDistance(query[1].lat, query[1].lng, CHOOSE row \in store : row.id = id)

\* ms holds the nearest of the wanted places, nearest first, cap of them at most
NearestFirst(ms, cap) ==
    /\ Len(ms) = MinOf(cap, Cardinality(Wanted))
    /\ \A i \in 1..Len(ms) :
           /\ \E row \in Wanted : row.id = ms[i].id
           /\ ms[i].distance = DistanceOf(ms[i].id)
    /\ \A i, j \in 1..Len(ms) :
           i < j => (ms[i].id # ms[j].id /\ ms[i].distance <= ms[j].distance)
    /\ \A row \in Wanted :
           (\A i \in 1..Len(ms) : ms[i].id # row.id)
               => \A i \in 1..Len(ms) : ms[i].distance <= DistanceOf(row.id)

Answered == pc[1] = "done" /\ resp[1].status = 200 /\ ~ queryErr[1]

ProviderRequested == trace[1] # <<>>
StoredInRadius == {row \in store : InRadius(row)}

\* C29 as stated: the provider is sent a request only if fewer than 20 places
\* are stored within the radius, whatever cap or category the caller gave
C29_RequestOnlyWhenFewStored ==
    ProviderRequested => Cardinality(StoredInRadius) < FreshThreshold

\* C29 amended: the provider is sent a request only if the first storage
\* query, with its category filter and its cap, returned fewer than 20 rows;
\* a first query of 20 rows or more is answered without the ingestion
C29_RequestOnlyWhenFewReturned ==
    /\ ProviderRequested => Len(markers[1]) < FreshThreshold
    /\ (pc[1] \in {"fetch", "requery"} \/ ingResult[1] # "none")
           => Len(markers[1]) < FreshThreshold
    /\ (pc[1] = "done" /\ valid[1] /\ resp[1].status = 200 /\ ingResult[1] = "none")
           => Len(markers[1]) >= FreshThreshold

\* the provider was asked although 56 places are stored within the radius: the
\* caller asked for 3 places of any category
C29_Witness ==
    /\ ProviderRequested
    /\ RequestedForm.category = ""
    /\ RequestedForm.maxPlaces.v = 3
    /\ Len(markers[1]) = 3
    /\ Cardinality(StoredInRadius) = 56

(* ------------------- Importance Scorer and Points Engine --------------- *)
Scored == ret.done /\ call.fn = "score"

SameButTypes(types) ==
    [call.place EXCEPT !.types = types]

\* the orderings of a category list
Orderings(types) ==
    {[i \in 1..Len(types) |-> types[p[i]]] :
        p \in {f \in [1..Len(types) -> 1..Len(types)] :
                 \A i, j \in 1..Len(types) : i # j => f[i] # f[j]}}

\* C22: the importance score is the same for every category list with the same
\* first category (rating and review count being equal), and the points are
\* the same for every ordering of the category list
C22_FirstCategoryAgainstAllCategories ==
    Scored =>
        /\ \A types \in ScoreTypes :
               (/\ Len(types) > 0 /\ Len(call.place.types) > 0
                /\ types[1] = call.place.types[1])
               => calculatePlaceImportanceScore(SameButTypes(types)) = ret.v.importance
        /\ \A types \in Orderings(call.place.types) :
               CalculatePlacePoints(types, call.place.rating, call.place.reviews)
                   = ret.v.points

\* a list whose first category is not its best: the score is that of the first
\* category, and an ordering of the list scores differently but prices the same
C22_Witness ==
    /\ Scored
    /\ Len(call.place.types) = 3
    /\ call.place.types[1] = "cafe"
    /\ call.place.types[3] = "museum"
    /\ ret.v.importance = calculatePlaceImportanceScore(SameButTypes(<<"cafe">>))
    /\ \E types \in Orderings(call.place.types) :
           /\ calculatePlaceImportanceScore(SameButTypes(types)) # ret.v.importance
           /\ CalculatePlacePoints(types, call.place.rating, call.place.reviews)
                  = ret.v.points
    /\ ret.v.points
           # CalculatePlacePoints(<<"cafe">>, call.place.rating, call.place.reviews)

\* what the review count adds to the score: the score less the score of the
\* same record without a review count
ReviewContribution ==
    ret.v.importance - calculatePlaceImportanceScore([call.place EXCEPT !.reviews = Nil])

\* C23 as stated: the contribution of the review count is one of 10, 15, 20,
\* 25, 30, 40, 50: 10 below 10 reviews, 50 from 1000 reviews on
C23_SevenBands ==
    (Scored /\ call.place.reviews # Nil) =>
        /\ ReviewContribution \in {10, 15, 20, 25, 30, 40, 50}
        /\ call.place.reviews < 10 => ReviewContribution = 10
        /\ call.place.reviews >= 1000 => ReviewContribution = 50

EightBands(n) ==
    CASE n < 10 -> 5
      [] n >= 10 /\ n < 20 -> 10
      [] n >= 20 /\ n < 50 -> 15
      [] n >= 50 /\ n < 100 -> 20
      [] n >= 100 /\ n < 200 -> 25
      [] n >= 200 /\ n < 500 -> 30
      [] n >= 500 /\ n < 1000 -> 40
      [] OTHER -> 50

\* C23 amended: the contribution of the review count is a non-decreasing step
\* function with the eight values 5, 10, 15, 20, 25, 30, 40, 50: 5 below 10
\* reviews, 50 from 1000 reviews on; without a review count nothing is added
C23_EightBands ==
    Scored =>
        /\ call.place.reviews # Nil => ReviewContribution = EightBands(call.place.reviews)
        /\ call.place.reviews = Nil => ReviewContribution = 0
        /\ \A n \in ScoreReviews \ {Nil} :
               (call.place.reviews # Nil /\ n >= call.place.reviews)
               => calculatePlaceImportanceScore([call.place EXCEPT !.reviews = n])
                      >= ret.v.importance

\* a record with 9 reviews gets 5 for them
C23_Witness ==
    /\ Scored
    /\ call.place.reviews = 9
    /\ ReviewContribution = 5

\* C24: the selection never holds two entries with the same external
\* identifier, also when the candidate list repeats one
C24_NoIdentifierTwice ==
    SelectorRun =>
        \A i, j \in 1..Len(ret.v) : i # j => ret.v[i].gid # ret.v[j].gid

CellOf(place) == CellKey(place.lat, place.lng)

\* C25: a candidate accepted in the second pass lies in a grid cell that holds
\* no known place, no first-pass selection and no earlier second-pass
\* selection; no two second-pass selections share a cell
C25_SecondPassCellsFree ==
    SelectorRun =>
        \A j \in (AfterFirstPass + 1)..AfterSecondPass :
            /\ \A p \in call.existing : CellKey(p.lat, p.lng) # CellOf(ret.v[j])
            /\ \A i \in 1..AfterFirstPass : CellOf(ret.v[i]) # CellOf(ret.v[j])
            /\ \A i \in (AfterFirstPass + 1)..AfterSecondPass :
                   i # j => CellOf(ret.v[i]) # CellOf(ret.v[j])

\* a candidate accepted in the second pass, one left out of it because its
\* cell holds a known place, and one because its cell holds that selection
C25_Witness ==
    /\ SelectorRun
    /\ AfterFirstPass = 0
    /\ AfterSecondPass = 1
    /\ AfterSecondPass < call.maxPlaces
    /\ \E k \in 1..Len(call.candidates) :
           /\ ret.v[1].gid # call.candidates[k].gid
           /\ \E p \in call.existing : CellKey(p.lat, p.lng) = CellOf(call.candidates[k])
    /\ \E k \in 1..Len(call.candidates) :
           /\ ret.v[1].gid # call.candidates[k].gid
           /\ CellOf(ret.v[1]) = CellOf(call.candidates[k])

(* ------------------------ repeated ingestion --------------------------- *)
\* the step is an upsert of the candidate at the head of the selection, saved,
\* on a store that holds its external identifier already
UpdatingUpsert ==
    /\ pc[1] = "upsert"
    /\ lastUpsert'[1] = "saved"
    /\ pc'[1] # "upsert" \/ selectedPlaces'[1] # selectedPlaces[1]
    /\ \E row \in store : row.gid = Head(selectedPlaces[1]).gid

RowOf(st, gid) == CHOOSE row \in st : row.gid = gid

\* the provider fields of the row are those of the candidate
ProviderFieldsFrom(row, place) ==
    /\ row.name = place.name
    /\ row.lat = place.lat /\ row.lng = place.lng
    /\ row.rating = place.rating
    /\ row.reviews = place.reviews

\* identity, base point value and verification flag are those of the old row
KeptFields(new, old) ==
    /\ new.id = old.id /\ new.gid = old.gid
    /\ new.basePoints = old.basePoints
    /\ new.isVerified = old.isVerified

\* C26 as stated: an upsert on a stored identifier overwrites name, location,
\* rating and review count of the row and leaves its identity, category
\* set, base point value and verification flag unchanged
C26_CategoriesKept ==
    [][UpdatingUpsert =>
         LET gid == Head(selectedPlaces[1]).gid IN
         /\ ProviderFieldsFrom(RowOf(store', gid), Head(selectedPlaces[1]))
         /\ KeptFields(RowOf(store', gid), RowOf(store, gid))
         /\ RowOf(store', gid).cats = RowOf(store, gid).cats]_vars

\* C26 amended: an upsert on a stored identifier overwrites name, location,
\* category set, rating and review count of the row and leaves its
\* identity, base point value and verification flag unchanged; no other row
\* changes and none is added
C26_CategoriesOverwritten ==
    [][UpdatingUpsert =>
         LET gid == Head(selectedPlaces[1]).gid IN
         /\ ProviderFieldsFrom(RowOf(store', gid), Head(selectedPlaces[1]))
         /\ KeptFields(RowOf(store', gid), RowOf(store, gid))
         /\ RowOf(store', gid).cats = Head(selectedPlaces[1]).types
         /\ {row \in store' : row.gid # gid} = {row \in store : row.gid # gid}
         /\ Cardinality(store') = Cardinality(store)]_vars

\* place 1 was stored as a castle worth 60 and re-ingested as a museum: the
\* row has the museum's name and categories and still the 60 points
C26_Witness ==
    \E row \in store :
        /\ row.gid = CastleA.gid
        /\ row.name = CastleB.name
        /\ row.cats = CastleB.types
        /\ row.basePoints = CalculatePlacePoints(CastleA.types, CastleA.rating,
                                                 CastleA.reviews)
        /\ row.basePoints # CalculatePlacePoints(CastleB.types, CastleB.rating,
                                                 CastleB.reviews)

\* C28: every stored place has the base point value the Points Engine gives
\* for its stored categories, rating and review count
C28_BasePointsCurrent ==
    \A row \in store :
        row.basePoints = CalculatePlacePoints(row.cats, row.rating, row.reviews)

\* the ingestion call has returned an error to its caller
IngestionFailed == ingResult[1] = "fail"

\* C30 as stated: when the ingestion call returns a failure, the store is as
\* it was before the call (empty, for the one request on a fresh store)
C30_FailureLeavesStoreAsBefore ==
    IngestionFailed => store = {}

\* C30 amended: the step on which the ingestion call fails writes nothing and
\* undoes nothing, so the places saved on the pages before it stay in the
\* store; a call that fails on its first page leaves the store as it was
C30_FailureKeepsEarlierPages ==
    /\ [][IngestionFailed' => store' = store]_vars
    /\ [](IngestionFailed /\ pageCount[1] = 0 => store = {})
    /\ [](IngestionFailed /\ lastUpsert[1] = "saved" =>
            \E row \in store : row.gid = CastleA.gid)

\* the second page failed after the first page's place was saved: the error
\* was returned and the place is stored
C30_Witness ==
    /\ IngestionFailed
    /\ pageCount[1] = 1
    /\ lastUpsert[1] = "saved"
    /\ store # {}
    /\ resp[1].status = 200
    /\ resp[1].markers = <<>>

(* ------------------------------ ranking -------------------------------- *)
\* how often the record occurs in the list
Occurrences(s, place) == Cardinality({i \in 1..Len(s) : s[i] = place})

IsPermutationOf(s, t) ==
    /\ Len(s) = Len(t)
    /\ \A i \in 1..Len(t) : Occurrences(s, t[i]) = Occurrences(t, t[i])

NonIncreasingImportance(s) ==
    \A i, j \in 1..Len(s) :
        i < j => calculatePlaceImportanceScore(s[i]) >= calculatePlaceImportanceScore(s[j])

Sorted == call.fn = "sort" /\ ret.done

\* C27: sortPlacesByImportance returns a permutation of the list it was given,
\* in non-increasing order of importance score, and the caller's list is
\* afterwards what it was before
C27_SortedPermutationInputKept ==
    Sorted =>
        /\ IsPermutationOf(ret.v.sorted, call.given)
        /\ NonIncreasingImportance(ret.v.sorted)
        /\ call.places = call.given

\* a list of three given in increasing order, two of its records scoring the
\* same, has been sorted
C27_Witness ==
    /\ Sorted
    /\ call.given = <<BankD, BankTwin, CastleA>>
    /\ ret.v.sorted[1] = CastleA
    /\ ret.v.sorted # call.given
    /\ calculatePlaceImportanceScore(BankD) = calculatePlaceImportanceScore(BankTwin)
    /\ calculatePlaceImportanceScore(BankD) < calculatePlaceImportanceScore(CastleA)
====
